---- MODULE Spec2Model ----
(***************************************************************************)
(* Query resolution pipeline of the AI data analytics platform.            *)
(*                                                                         *)
(* Text (queries, column names, cell strings, LLM replies) is a sequence   *)
(* of one-character strings, so that lower(), split(), `in' and the        *)
(* regular expressions of the pattern matcher are computed character by    *)
(* character.                                                              *)
(***************************************************************************)
EXTENDS Integers, Sequences, FiniteSets, TLC

VARIABLES
    source,      \* the uploaded file's content: what every script run re-reads
    data,        \* the DataFrame object process_and_download holds
    query,       \* the text of the query being handled
    pc,          \* position of the handling
    fast_result, \* value optimized_pattern_matching returned
    trace,       \* which shape the pattern matcher honoured, and with what
    result,      \* value process_query returned
    llmCalls,    \* query_gemini invocations of this handling
    searchCalls, \* web_search invocations of this handling
    shown,       \* what the handling has presented to the user, in order
    replies,     \* texts query_gemini_ai returned in this handling, in order
    memo,        \* st.cache_data memo of cached_ai_response
    cacheLog,    \* per cache key, what each AI resolution did and returned
    calls,       \* the components this handling has invoked, in order
    chart,       \* what generate_smart_visualizations did and returned
    input,       \* arguments of a helper function called on its own, with
                 \* what its environment answers
    output       \* what that function did and returned

vars == <<source, data, query, pc, fast_result, trace, result, llmCalls,
          searchCalls, shown, replies, memo, cacheLog, calls, chart, input,
          output>>

\* the variables of the query handling
handling_vars == <<source, data, query, fast_result, trace, result, llmCalls,
                   searchCalls, shown, replies, memo, cacheLog, calls, chart>>

(***************************************************************************)
(* Bounds                                                                  *)
(***************************************************************************)
MaxRows == 2

(***************************************************************************)
(* Text                                                                    *)
(***************************************************************************)
Lowers == <<"a","b","c","d","e","f","g","h","i","j","k","l","m",
            "n","o","p","q","r","s","t","u","v","w","x","y","z">>
Uppers == <<"A","B","C","D","E","F","G","H","I","J","K","L","M",
            "N","O","P","Q","R","S","T","U","V","W","X","Y","Z">>
DigitChars == <<"0","1","2","3","4","5","6","7","8","9">>

Range(s) == {s[i] : i \in DOMAIN s}
Min(S) == CHOOSE x \in S : \A y \in S : x <= y

\* the element of a one-element set: Only({F(x) : x \in {e}}) is F of the
\* value of e, with e computed once
Only(S) == CHOOSE x \in S : TRUE

Digits == Range(DigitChars)
LowerSet == Range(Lowers)
UpperSet == Range(Uppers)
\* \w of the re module, over the characters the model writes
WordChars == LowerSet \cup UpperSet \cup Digits \cup {"_"}

\* str.lower()
LowerChar(c) ==
    IF c \in UpperSet
    THEN Lowers[CHOOSE i \in DOMAIN Uppers : Uppers[i] = c]
    ELSE c
Lower(t) == SubSeq([i \in DOMAIN t |-> LowerChar(t[i])], 1, Len(t))

\* str.upper()
UpperChar(c) ==
    IF c \in LowerSet
    THEN Uppers[CHOOSE i \in DOMAIN Lowers : Lowers[i] = c]
    ELSE c
Upper(t) == SubSeq([i \in DOMAIN t |-> UpperChar(t[i])], 1, Len(t))

\* `sub in text'
HasSub(text, sub) ==
    \E i \in 1..(Len(text) - Len(sub) + 1) :
        SubSeq(text, i, i + Len(sub) - 1) = sub

\* any(w in text for w in words)
HasAny(text, words) == \E k \in DOMAIN words : HasSub(text, words[k])

\* last position of the maximal run of characters of S that starts at i
RunEnd(text, i, S) ==
    CHOOSE j \in i..Len(text) :
        /\ \A k \in i..j : text[k] \in S
        /\ (j = Len(text) \/ text[j + 1] \notin S)

\* first position at or after i that holds no blank (Len + 1 when none)
SkipSpaces(text, i) ==
    CHOOSE j \in i..(Len(text) + 1) :
        /\ \A k \in i..(j - 1) : text[k] = " "
        /\ (j = Len(text) + 1 \/ text[j] # " ")

\* the k-th smallest element of a set of numbers
Nth(S, k) == CHOOSE x \in S : Cardinality({y \in S : y < x}) = k - 1

\* str.split(): the maximal runs of non-blank characters, in order
WordStarts(text) ==
    {i \in 1..Len(text) : text[i] # " " /\ (i = 1 \/ text[i - 1] = " ")}
WordFrom(text, i) == SubSeq(text, i, RunEnd(text, i, Range(text) \ {" "}))
Split(text) ==
    Only({SubSeq([k \in 1..Cardinality(starts) |-> WordFrom(text, Nth(starts, k))],
                 1, Cardinality(starts)) : starts \in {WordStarts(text)}})

\* float() of a string of at most three digits
DigitValue(c) == (CHOOSE i \in DOMAIN DigitChars : DigitChars[i] = c) - 1
ParseNumber(ds) ==
    LET FromRight(i) == IF i <= Len(ds) THEN DigitValue(ds[Len(ds) - i + 1]) ELSE 0
    IN  FromRight(1) + 10 * FromRight(2) + 100 * FromRight(3)

IsDigits(t) == t # <<>> /\ \A i \in DOMAIN t : t[i] \in Digits

\* re.search of the pattern  (\w+)\s*OP\s*(\d+\.?\d*)  in text.
\* A match at i: a run of \w from i (greedy; a shorter run is followed by a \w
\* character, not by blanks or OP), blanks, OP, blanks, digits.  The texts of
\* the model hold no '.', so the tail  \.?\d*  matches the empty string.
MatchAt(text, op, i) ==
    /\ text[i] \in WordChars
    /\ \E e \in {RunEnd(text, i, WordChars)} :
       \E p \in {SkipSpaces(text, e + 1)} :
           /\ p + Len(op) - 1 <= Len(text)
           /\ SubSeq(text, p, p + Len(op) - 1) = op
           /\ \E d \in {SkipSpaces(text, p + Len(op))} :
                  d <= Len(text) /\ text[d] \in Digits

NoMatch == [found |-> FALSE, at |-> 0, g1 |-> <<>>, g2 |-> <<>>]

\* re.search finds a match
MatchesSomewhere(text, op) == \E i \in 1..Len(text) : MatchAt(text, op, i)

\* the leftmost position with a match (0 when none)
FirstMatch(text, op) ==
    IF \E i \in 1..Len(text) : MatchAt(text, op, i)
    THEN CHOOSE i \in 1..Len(text) :
             MatchAt(text, op, i) /\ \A j \in 1..(i - 1) : ~MatchAt(text, op, j)
    ELSE 0

\* the two groups of a match at i
Groups(text, op, i) ==
    Only({Only({[found |-> TRUE, at |-> i,
                 g1 |-> SubSeq(text, i, e),
                 g2 |-> SubSeq(text, d, RunEnd(text, d, Digits))]
                : d \in {SkipSpaces(text, SkipSpaces(text, e + 1) + Len(op))}})
          : e \in {RunEnd(text, i, WordChars)}})

ReSearch(text, op) ==
    Only({IF i = 0 THEN NoMatch ELSE Groups(text, op, i)
          : i \in {FirstMatch(text, op)}})

(***************************************************************************)
(* DataFrame: ordered columns with a dtype, rows of cells.                 *)
(* A cell is a number, NaN or a string.                                    *)
(***************************************************************************)
Num(n) == [k |-> "num", n |-> n, s |-> <<>>]
Str(t) == [k |-> "str", n |-> 0, s |-> t]
NaN == [k |-> "nan", n |-> 0, s |-> <<>>]

\* a cell of a datetime64 column
Date(n) == [k |-> "date", n |-> n, s |-> <<>>]

\* a column: its label, whether the label is a str or an int (a header cell
\* of a spreadsheet, a key of a JSON array), and its dtype
Col(name, dtype) == [name |-> name, dtype |-> dtype, label |-> "str"]

\* a column whose label is an int; `name' is the text str(label)
IntCol(name, dtype) == [name |-> name, dtype |-> dtype, label |-> "int"]
Frame(cols, rows) == [kind |-> "df", cols |-> cols, rows |-> rows]
None == [kind |-> "none", cols |-> <<>>, rows |-> <<>>]

IsFrame(r) == r.kind = "df"

\* no chart: what the selector returns when it draws nothing, and the value
\* of `chart' while the selector has not been invoked
NoChart == [invoked |-> FALSE, dispatch |-> "none", family |-> "none", x |-> 0, y |-> 0]
Empty(r) == r.rows = <<>>

\* pd.api.types.is_numeric_dtype
is_numeric_dtype(dtype) == dtype = "number"

\* pd.to_numeric(cell, errors='coerce'): a string of digits becomes its
\* number, any other string becomes NaN
to_numeric(cell) ==
    IF cell.k = "str"
    THEN IF IsDigits(cell.s) THEN Num(ParseNumber(cell.s)) ELSE NaN
    ELSE cell

\* data[col_name] = pd.to_numeric(data[col_name], errors='coerce')
CoerceColumn(d, ci) ==
    Frame([j \in DOMAIN d.cols |->
              IF j = ci THEN Col(d.cols[j].name, "number") ELSE d.cols[j]],
          [r \in DOMAIN d.rows |->
              [j \in DOMAIN d.cols |->
                  IF j = ci THEN to_numeric(d.rows[r][j]) ELSE d.rows[r][j]]])

\* cell OP threshold on a numeric column; NaN compares False
Compare(cell, op, t) ==
    /\ cell.k = "num"
    /\ CASE op = ">"  -> cell.n > t
         [] op = "<"  -> cell.n < t
         [] op = ">=" -> cell.n >= t
         [] op = "<=" -> cell.n <= t
         [] op = "==" -> cell.n = t
         [] op = "!=" -> cell.n # t
         [] OTHER     -> FALSE

\* data[mask]: the rows whose entry of the boolean mask is True, in order
FilterRows(d, mask) ==
    LET kept == {r \in DOMAIN d.rows : mask[r]}
        rows == [k \in 1..Cardinality(kept) |-> d.rows[Nth(kept, k)]]
    IN  Frame(d.cols, SubSeq(rows, 1, Cardinality(kept)))

(***************************************************************************)
(* optimized_pattern_matching                                              *)
(***************************************************************************)
\* the text of an operator symbol
OpText(op) ==
    CASE op = ">"  -> <<">">>
      [] op = "<"  -> <<"<">>
      [] op = ">=" -> <<">", "=">>
      [] op = "<=" -> <<"<", "=">>
      [] op = "==" -> <<"=", "=">>
      [] op = "!=" -> <<"!", "=">>

\* the symbols whose presence opens the numeric shape
comparison_symbols == <<">", "<", ">=", "<=", "==", "!=">>

\* mutant: the list with the `<' expression ahead of the `>' expression
patterns_lt_first == <<"<", ">", ">=", "<=">>

\* the operator of each regular expression of `patterns', in list order
patterns == <<">", "<", ">=", "<=">>

contains_keywords ==
    << <<"c","o","n","t","a","i","n","s">>, <<"l","i","k","e">>,
       <<"h","a","s">>, <<"w","i","t","h">> >>

count_keywords ==
    << <<"c","o","u","n","t">>, <<"h","o","w"," ","m","a","n","y">> >>

NoTrace == [shape |-> "none", col |-> 0, pat |-> "none", applied |-> "none",
            thr |-> 0, word |-> <<>>]

\* [c.lower() for c in data.columns]; next(c for c in data.columns if ...)
ColumnsNamed(d, lname) ==
    {ci \in DOMAIN d.cols :
        d.cols[ci].label = "str" /\ Lower(d.cols[ci].name) = lname}

\* the if / elif chain that picks the comparison to apply
AppliedOp(ql) ==
    IF HasSub(ql, OpText(">")) THEN ">"
    ELSE IF HasSub(ql, OpText("<")) THEN "<"
    ELSE IF HasSub(ql, OpText(">=")) THEN ">="
    ELSE IF HasSub(ql, OpText("<=")) THEN "<="
    ELSE "none"

\* a comparison of a column of this dtype with a float raises (bare except:
\* continue); number and coerced object columns compare
ComparisonRaises(dtype) == dtype \notin {"number", "object"}

\* the patterns of the list whose leftmost match names a column and whose
\* comparison returns
HonouredPatterns(d, ql) ==
    {k \in DOMAIN patterns :
        \E m \in {ReSearch(ql, OpText(patterns[k]))} :
            /\ m.found
            /\ ColumnsNamed(d, m.g1) # {}
            /\ ~ComparisonRaises(d.cols[Min(ColumnsNamed(d, m.g1))].dtype)
            /\ AppliedOp(ql) # "none"}

\* a shape that does not return
NotReturned(d) == [returned |-> FALSE, data |-> d, result |-> None, trace |-> NoTrace]

\* an exception that leaves optimized_pattern_matching
Raised(d) ==
    [returned |-> FALSE, data |-> d, result |-> None,
     trace |-> [NoTrace EXCEPT !.shape = "raised"]]

\* `col.lower()' of line 616 is evaluated for this column: its dtype is not
\* numeric
LowerEvaluated(d, ci) == ~is_numeric_dtype(d.cols[ci].dtype)

\* the loop over the expressions is entered for this column
EntersPatterns(d, ql, ci) ==
    \/ is_numeric_dtype(d.cols[ci].dtype)
    \/ d.cols[ci].label = "str" /\ HasSub(ql, Lower(d.cols[ci].name))

\* an int label has no lower(): AttributeError, outside every try, at line 616
\* for an int-labelled column that is not numeric, and at line 628 (`c.lower()
\* for c in data.columns') as soon as an expression matches the query
LowerRaises(d, ql) ==
    /\ \E ci \in DOMAIN d.cols : d.cols[ci].label = "int"
    /\ \/ \E ci \in DOMAIN d.cols :
              d.cols[ci].label = "int" /\ LowerEvaluated(d, ci)
       \/ /\ \E ci \in DOMAIN d.cols : EntersPatterns(d, ql, ci)
          /\ \E k \in DOMAIN patterns : MatchesSomewhere(ql, OpText(patterns[k]))

\* the body of the try: coerce an object column in the caller's frame, then
\* return the rows the applied comparison keeps
CoerceAndFilter(d, ci, pat, op, t) ==
    Only({[returned |-> TRUE, data |-> d2,
           result |-> FilterRows(d2, [r \in DOMAIN d2.rows |->
                                         Compare(d2.rows[r][ci], op, t)]),
           trace |-> [shape |-> "numeric", col |-> ci, pat |-> pat,
                      applied |-> op, thr |-> t, word |-> <<>>]]
          : d2 \in {IF d.cols[ci].dtype = "object" THEN CoerceColumn(d, ci) ELSE d}})

\* the first pattern of the list that is honoured, with its match
HonouredMatch(d, ql, hp) ==
    Only({CoerceAndFilter(d, Min(ColumnsNamed(d, m.g1)), patterns[Min(hp)],
                          AppliedOp(ql), ParseNumber(m.g2))
          : m \in {ReSearch(ql, OpText(patterns[Min(hp)]))}})

\* "Fast numeric filtering"
fast_numeric_filtering(d, ql) ==
    IF ~\E k \in DOMAIN comparison_symbols :
            HasSub(ql, OpText(comparison_symbols[k]))
    THEN NotReturned(d)
    ELSE IF LowerRaises(d, ql) THEN Raised(d)
    ELSE IF \E ci \in DOMAIN d.cols : EntersPatterns(d, ql, ci)
    THEN Only({IF hp = {} THEN NotReturned(d) ELSE HonouredMatch(d, ql, hp)
               : hp \in {HonouredPatterns(d, ql)}})
    ELSE NotReturned(d)

\* str(n) of a number below 1000
NumberText(n) ==
    LET all == <<DigitChars[(n \div 100) + 1], DigitChars[((n \div 10) % 10) + 1],
                 DigitChars[(n % 10) + 1]>>
    IN  IF n >= 100 THEN all ELSE IF n >= 10 THEN SubSeq(all, 2, 3)
        ELSE SubSeq(all, 3, 3)

\* Series.astype(str)
AsStr(cell) ==
    CASE cell.k = "str" -> cell.s
      [] cell.k = "num" -> NumberText(cell.n)
      [] cell.k = "nan" -> <<"n", "a", "n">>

\* str.contains takes the word as a regular expression. Of the characters the
\* model writes, `.' stands for any character and `(' opens a group; the
\* words of the model hold no `)', so a word with `(' does not compile
\* (re.error: missing ), unterminated subpattern)
InvalidPattern(word) == "(" \in Range(word)

\* re.search(pat, text) for a pattern that compiles
RegexSearch(text, pat) ==
    \E i \in 1..(Len(text) - Len(pat) + 1) :
        \A j \in 1..Len(pat) : pat[j] = "." \/ pat[j] = text[i + j - 1]

\* data[data[col].astype(str).str.contains(word, case=False, na=False)]
ContainsMatches(d, ci, word) ==
    LET mask == [r \in DOMAIN d.rows |->
                    RegexSearch(Lower(AsStr(d.rows[r][ci])), Lower(word))]
    IN  FilterRows(d, mask)

\* the words the scan of a column reaches: a word of more than 3 characters
\* that does not compile raises inside the try, and `except: continue' goes
\* on with the next column
Reached(words, wi) ==
    \A j \in 1..wi : ~(Len(words[j]) > 3 /\ InvalidPattern(words[j]))

\* the (column, word) pairs the scan tries that give a non-empty subset
WordHits(d, words) ==
    {p \in (DOMAIN d.cols) \X (DOMAIN words) :
        /\ d.cols[p[1]].dtype = "object"
        /\ Len(words[p[2]]) > 3
        /\ Reached(words, p[2])
        /\ ~Empty(ContainsMatches(d, p[1], words[p[2]]))}
TextHits(d, ql) == Only({WordHits(d, words) : words \in {Split(ql)}})

\* the first hit: the first column that has one, and its first word
FirstHit(th) ==
    Only({<<ci, Min({h[2] : h \in {x \in th : x[1] = ci}})>>
          : ci \in {Min({h[1] : h \in th})}})

ContainsReturn(d, ci, w) ==
    [returned |-> TRUE, data |-> d, result |-> ContainsMatches(d, ci, w),
     trace |-> [shape |-> "contains", col |-> ci, pat |-> "none",
                applied |-> "none", thr |-> 0, word |-> w]]

\* "Fast text filtering": columns in order, words in order, first hit returns
fast_text_filtering(d, ql) ==
    IF HasAny(ql, contains_keywords)
    THEN Only({IF th = {} THEN NotReturned(d)
               ELSE Only({ContainsReturn(d, h[1], Split(ql)[h[2]])
                          : h \in {FirstHit(th)}})
               : th \in {TextHits(d, ql)}})
    ELSE NotReturned(d)

\* pd.DataFrame({'count': [len(data)]})
CountFrame(d) ==
    Frame(<<Col(<<"c","o","u","n","t">>, "number")>>, << <<Num(Len(d.rows))>> >>)

\* "Fast counting"
fast_counting(d, ql) ==
    IF HasAny(ql, count_keywords)
    THEN [returned |-> TRUE, data |-> d, result |-> CountFrame(d),
          trace |-> [shape |-> "count", col |-> 0, pat |-> "none",
                     applied |-> "none", thr |-> 0, word |-> <<>>]]
    ELSE NotReturned(d)

\* mutant: counting tried ahead of the two filtering shapes
optimized_pattern_matching_count_first(d, q) ==
    Only({Only({IF c.returned THEN c
                ELSE Only({IF n.returned \/ n.trace.shape = "raised" THEN n
                           ELSE fast_text_filtering(d, ql)
                           : n \in {fast_numeric_filtering(d, ql)}})
                : c \in {fast_counting(d, ql)}})
          : ql \in {Lower(q)}})

\* the three shapes in the order the code tries them; `data' is the caller's
\* frame after the call
optimized_pattern_matching(d, q) ==
    Only({Only({IF n.returned \/ n.trace.shape = "raised" THEN n
                ELSE Only({IF t.returned THEN t ELSE fast_counting(d, query_lower)
                           : t \in {fast_text_filtering(d, query_lower)}})
                : n \in {fast_numeric_filtering(d, query_lower)}})
          : query_lower \in {Lower(q)}})

(***************************************************************************)
(* Inputs: column names, words, datasets and queries                       *)
(***************************************************************************)
T_name    == <<"n","a","m","e">>
T_score   == <<"s","c","o","r","e">>
T_Score   == <<"S","c","o","r","e">>
T_age     == <<"a","g","e">>
T_xyz123  == <<"x","y","z","1","2","3">>
T_50      == <<"5","0">>
T_30      == <<"3","0">>
T_count   == <<"c","o","u","n","t">>
T_howmany == <<"h","o","w"," ","m","a","n","y"," ","r","e","c","o","r","d","s">>
T_with    == <<"w","i","t","h">>
T_and     == <<" ","a","n","d"," ">>
T_a       == <<"a">>
T_b       == <<"b">>
T_withers == <<"w","i","t","h","e","r","s">>
T_na      == <<"n","/","a">>
T_city    == <<"c","i","t","y">>
T_bath    == <<"b","a","t","h">>
T_0       == <<"0">>
T_1       == <<"1">>
T_bath_withers == T_bath \o <<" ">> \o T_withers
T_paren   == <<"h","a","s"," ","(","a","b","c"," ">> \o T_withers
T_dot     == <<"w","i","t","h",".","r","s">>

\* [name(text), score(numeric)], the dataset of the scenarios
SchemaA == <<Col(T_name, "object"), Col(T_score, "number")>>
PoolA == { <<Str(T_a), Num(10)>>, <<Str(T_b), Num(90)>>, <<Str(T_withers), Num(50)>> }

\* a text-typed column of numbers, as read from a sheet; its name is capitalised
SchemaB == <<Col(T_name, "object"), Col(T_Score, "object")>>
PoolB == { <<Str(T_a), Str(<<"1","0">>)>>, <<Str(T_b), Str(<<"9","0">>)>>,
           <<Str(T_withers), Str(T_na)>> }

\* two numeric columns
SchemaC == <<Col(T_age, "number"), Col(T_score, "number")>>
PoolC == { <<Num(20), Num(10)>>, <<Num(40), Num(90)>>, <<Num(30), Num(50)>> }

\* two text columns
SchemaD == <<Col(T_name, "object"), Col(T_city, "object")>>
PoolD == { <<Str(T_withers), Str(T_bath)>>, <<Str(T_a), Str(T_bath)>> }

\* a sheet whose header cells are numbers, or a JSON array of arrays:
\* the labels of the columns are ints
SchemaE == <<IntCol(T_0, "object"), IntCol(T_1, "number")>>
PoolE == { <<Str(T_withers), Num(90)>> }
SchemaF == <<IntCol(T_0, "number"), IntCol(T_1, "number")>>
PoolF == { <<Num(20), Num(90)>> }

RowSeqs(pool) == UNION {[1..n -> pool] : n \in 1..MaxRows}

\* main_column_selection hands on only frames that are not empty
Datasets ==
    {Frame(SchemaA, rs) : rs \in RowSeqs(PoolA)}
    \cup {Frame(SchemaB, rs) : rs \in RowSeqs(PoolB)}
    \cup {Frame(SchemaC, rs) : rs \in RowSeqs(PoolC)}
    \cup {Frame(SchemaD, rs) : rs \in RowSeqs(PoolD)}
    \cup {Frame(SchemaE, rs) : rs \in RowSeqs(PoolE)}
    \cup {Frame(SchemaF, rs) : rs \in RowSeqs(PoolF)}

Cmp(c, op, t) == c \o <<" ">> \o OpText(op) \o <<" ">> \o t

\* comparisons on a column, on the capitalised column without blanks, and on
\* a word that names no column
CmpClauses ==
    {Cmp(T_score, op, T_50) : op \in Range(comparison_symbols)}
    \cup {Cmp(T_age, op, T_30) : op \in {"<", ">="}}
    \cup {Cmp(T_xyz123, ">", T_50), T_Score \o OpText(">") \o T_50}

\* words, among them a word that is a regular expression and a word that
\* does not compile as one
WordClauses ==
    {T_count, T_howmany, T_with, T_xyz123, T_bath_withers, T_paren, T_dot, <<>>}

\* what a query goes on with after " and "
SecondClauses ==
    {Cmp(T_score, ">", T_50), Cmp(T_score, ">=", T_50), Cmp(T_age, "<", T_30),
     T_count, T_with, <<>>}

JoinClauses(a, b) ==
    IF a = <<>> THEN b ELSE IF b = <<>> THEN a ELSE a \o T_and \o b

\* `if query:' lets only non-empty text through
Queries ==
    {JoinClauses(a, b) : a \in CmpClauses \cup WordClauses,
                         b \in SecondClauses} \ {<<>>}

\* the queries of a later script run over the same upload
RerunQueries == {Cmp(T_score, ">", T_50), T_howmany, T_with}

(***************************************************************************)
(* SpecMatch: the pattern matcher applied to every dataset and query       *)
(***************************************************************************)
InitMatch ==
    /\ input = None
    /\ output = None
    /\ source \in Datasets
    /\ data = source
    /\ query \in Queries
    /\ pc = "call"
    /\ fast_result = None
    /\ trace = NoTrace
    /\ result = None
    /\ llmCalls = 0
    /\ searchCalls = 0
    /\ shown = <<>>
    /\ replies = <<>>
    /\ memo = {}
    /\ cacheLog = <<>>
    /\ calls = <<>>
    /\ chart = NoChart

\* one call optimized_pattern_matching(data, query), the coercion included
MatchCall ==
    /\ pc = "call"
    /\ \E m \in {optimized_pattern_matching(data, query)} :
           /\ data' = m.data
           /\ fast_result' = m.result
           /\ trace' = m.trace
    /\ pc' = "returned"
    /\ UNCHANGED <<source, query, result, llmCalls, searchCalls, shown, replies,
                   memo, cacheLog, calls, chart,
                   input, output>>

\* the next script run reads the upload again and takes the next query
MatchRerun ==
    /\ pc = "returned"
    /\ data' = source
    /\ query' \in RerunQueries
    /\ fast_result' = None
    /\ trace' = NoTrace
    /\ pc' = "call"
    /\ UNCHANGED <<source, result, llmCalls, searchCalls, shown, replies, memo,
                   cacheLog, calls, chart,
                   input, output>>

NextMatch == MatchCall \/ MatchRerun

SpecMatch == InitMatch /\ [][NextMatch]_vars

TypeOKMatch == pc \in {"call", "returned"}

(***************************************************************************)
(* Claims about the pattern matcher (SpecMatch)                            *)
(***************************************************************************)
QL == Lower(query)
MatcherReturned == pc = "returned"
HasCountKeyword == HasAny(QL, count_keywords)
ComparisonHonoured == HonouredPatterns(source, QL) # {}
ContainsHit == HasAny(QL, contains_keywords) /\ TextHits(source, QL) # {}

MatcherRaised == trace.shape = "raised"

C2_RowsSatisfyWrittenComparison ==
    (MatcherReturned /\ trace.shape = "numeric") =>
        \A i \in DOMAIN fast_result.rows :
            /\ fast_result.rows[i] \in Range(data.rows)
            /\ Compare(fast_result.rows[i][trace.col], trace.pat, trace.thr)

\* the rows of D, the column coerced, whose value is non-null and satisfies op
ExpectedRows(d, ci, op, t) ==
    LET c == CoerceColumn(d, ci)
    IN  FilterRows(c, [r \in DOMAIN c.rows |-> Compare(c.rows[r][ci], op, t)])

\* C3 (as claimed): a query `C op T' returns exactly the rows whose C value is
\* non-null and satisfies op, for each of the six operators.
C3_EveryOperatorApplied ==
    MatcherReturned =>
        \A op \in Range(comparison_symbols), ci \in DOMAIN source.cols,
           t \in {T_50, T_30} :
            QL = Cmp(Lower(source.cols[ci].name), op, t)
                => fast_result = ExpectedRows(source, ci, op, ParseNumber(t))

\* where the comparisons with operator op are written in ql: the positions of
\* the words that the operator and a number follow
Occurrences(ql, op) ==
    {i \in 1..Len(ql) :
        /\ MatchAt(ql, OpText(op), i)
        /\ (i = 1 \/ ql[i - 1] \notin WordChars)}

WordAt(ql, i) == SubSeq(ql, i, RunEnd(ql, i, WordChars))

NumberAfter(ql, op, i) ==
    LET d == SkipSpaces(ql, SkipSpaces(ql, RunEnd(ql, i, WordChars) + 1)
                                + Len(OpText(op)))
    IN  ParseNumber(SubSeq(ql, d, RunEnd(ql, d, Digits)))

\* the comparisons on existing columns the query embeds
WrittenComparisons(d, ql) ==
    {c \in Range(comparison_symbols) \X (1..Len(ql)) :
        /\ c[2] \in Occurrences(ql, c[1])
        /\ ColumnsNamed(d, WordAt(ql, c[2])) # {}}

TextuallyFirst(d, ql) ==
    CHOOSE c \in WrittenComparisons(d, ql) :
        \A o \in WrittenComparisons(d, ql) : c[2] <= o[2]

PatternOrder == <<">", "<", ">=", "<=">>

\* the operators whose leftmost occurrence follows a column name
EligibleOperators(d, ql) ==
    {k \in DOMAIN PatternOrder :
        /\ Occurrences(ql, PatternOrder[k]) # {}
        /\ ColumnsNamed(d, WordAt(ql, Min(Occurrences(ql, PatternOrder[k])))) # {}}

C5_DatasetUnchanged == data = source

\* the rows of d whose text in column ci holds w, whatever the case
SubstringRows(d, ci, w) ==
    FilterRows(d, [r \in DOMAIN d.rows |->
                      HasSub(Lower(AsStr(d.rows[r][ci])), Lower(w))])

\* the (column, token) pairs with a non-empty substring filter
SubstringPairs(d, ql) ==
    LET words == Split(ql)
    IN  {p \in (DOMAIN d.cols) \X (DOMAIN words) :
            /\ d.cols[p[1]].dtype = "object"
            /\ Len(words[p[2]]) > 3
            /\ ~Empty(SubstringRows(d, p[1], words[p[2]]))}

\* the first of them: columns in dataset order, tokens in query order
FirstSubstringPair(d, ql) ==
    CHOOSE p \in SubstringPairs(d, ql) :
        \A o \in SubstringPairs(d, ql) :
            p[1] < o[1] \/ (p[1] = o[1] /\ p[2] <= o[2])

\* C19 (as claimed): for a query with one of contains/like/has/with and no
\* honoured numeric comparison, the matcher returns the rows of the first
\* (text column, token longer than 3 characters) pair, columns in dataset
\* order and tokens in query order, whose case-insensitive substring filter
\* is non-empty.
C19_FirstSubstringPairReturned ==
    (/\ MatcherReturned
     /\ HasAny(QL, contains_keywords)
     /\ trace.shape # "numeric"
     /\ SubstringPairs(data, QL) # {}) =>
        LET p == FirstSubstringPair(data, QL)
        IN  fast_result = SubstringRows(data, p[1], Split(QL)[p[2]])

\* C20 (as claimed): for every dataset and every query the call of the pattern
\* matcher ends with a row set or with no result, never with an exception
\* that reaches its caller.
C20_MatcherNeverRaises == MatcherReturned => ~MatcherRaised

(***************************************************************************)
(* The visualization selector of src/main.py: generate_smart_visualizations *)
(* and the create_*_chart functions                                         *)
(***************************************************************************)
\* columns of one chart input
MaxCols == 3

\* `if len(data) <= 20' of create_summary_chart
SummaryMaxRows == 20

time_series_keywords  == << <<"t","r","e","n","d">>, <<"o","v","e","r"," ","t","i","m","e">>, <<"t","i","m","e","l","i","n","e">>, <<"t","i","m","e"," ","s","e","r","i","e","s">> >>
distribution_keywords == << <<"d","i","s","t","r","i","b","u","t","i","o","n">>, <<"h","i","s","t","o","g","r","a","m">>, <<"f","r","e","q","u","e","n","c","y">> >>
comparison_keywords   == << <<"c","o","m","p","a","r","e">>, <<"c","o","m","p","a","r","i","s","o","n">>, <<"v","s">>, <<"v","e","r","s","u","s">> >>
correlation_keywords  == << <<"c","o","r","r","e","l","a","t","i","o","n">>, <<"r","e","l","a","t","i","o","n","s","h","i","p">>, <<"s","c","a","t","t","e","r">> >>
summary_keywords      == << <<"c","o","u","n","t">>, <<"t","o","t","a","l">>, <<"s","u","m">>, <<"a","g","g","r","e","g","a","t","e">> >>

\* data.select_dtypes(include=[...]).columns, as the positions of the columns
select_dtypes(d, include) == {ci \in DOMAIN d.cols : d.cols[ci].dtype \in include}

numeric_cols(d)     == select_dtypes(d, {"number"})
date_cols(d)        == select_dtypes(d, {"datetime64"})
categorical_cols(d) == select_dtypes(d, {"object", "category"})

\* the second element of a set of positions
Second(S) == Min(S \ {Min(S)})

\* a figure of a family with its two axes (0 for an axis the figure lacks)
Figure(family, x, y) ==
    [invoked |-> TRUE, dispatch |-> "none", family |-> family, x |-> x, y |-> y]

\* `return None' of a create function
NoFigure == Figure("none", 0, 0)

create_time_series_chart(d) ==
    IF date_cols(d) # {} /\ numeric_cols(d) # {}
    THEN Figure("time_series", Min(date_cols(d)), Min(numeric_cols(d)))
    ELSE NoFigure

create_distribution_chart(d) ==
    IF numeric_cols(d) # {}
    THEN Figure("distribution", Min(numeric_cols(d)), 0)
    ELSE NoFigure

\* mutant: the bar chart drawn over the last text column
create_comparison_chart_last_text(d) ==
    IF categorical_cols(d) # {} /\ numeric_cols(d) # {}
    THEN Figure("comparison",
                CHOOSE c \in categorical_cols(d) : \A o \in categorical_cols(d) : o <= c,
                Min(numeric_cols(d)))
    ELSE NoFigure

create_comparison_chart(d) ==
    IF categorical_cols(d) # {} /\ numeric_cols(d) # {}
    THEN Figure("comparison", Min(categorical_cols(d)), Min(numeric_cols(d)))
    ELSE NoFigure

create_correlation_chart(d) ==
    IF Cardinality(numeric_cols(d)) >= 2
    THEN Figure("correlation", Min(numeric_cols(d)), Second(numeric_cols(d)))
    ELSE NoFigure

create_summary_chart(d) ==
    IF /\ Len(d.rows) <= SummaryMaxRows
       /\ categorical_cols(d) # {}
       /\ numeric_cols(d) # {}
    THEN Figure("summary", Min(categorical_cols(d)), Min(numeric_cols(d)))
    ELSE NoFigure

\* mutant: the bar chart tried ahead of the scatter plot
create_auto_chart_comparison_first(d) ==
    IF categorical_cols(d) # {} /\ numeric_cols(d) # {}
    THEN create_comparison_chart(d)
    ELSE IF Cardinality(numeric_cols(d)) >= 2 THEN create_correlation_chart(d)
    ELSE IF numeric_cols(d) # {} THEN create_distribution_chart(d)
    ELSE NoFigure

create_auto_chart(d) ==
    IF Cardinality(numeric_cols(d)) >= 2 THEN create_correlation_chart(d)
    ELSE IF categorical_cols(d) # {} /\ numeric_cols(d) # {}
         THEN create_comparison_chart(d)
    ELSE IF numeric_cols(d) # {} THEN create_distribution_chart(d)
    ELSE NoFigure

\* mutant: the comparison keywords tested ahead of the distribution keywords
Dispatch_comparison_second(ql) ==
    IF HasAny(ql, time_series_keywords) THEN "time_series"
    ELSE IF HasAny(ql, comparison_keywords) THEN "comparison"
    ELSE IF HasAny(ql, distribution_keywords) THEN "distribution"
    ELSE IF HasAny(ql, correlation_keywords) THEN "correlation"
    ELSE IF HasAny(ql, summary_keywords) THEN "summary"
    ELSE "auto"

\* the create function the if / elif chain of the selector dispatches to
Dispatch(ql) ==
    IF HasAny(ql, time_series_keywords) THEN "time_series"
    ELSE IF HasAny(ql, distribution_keywords) THEN "distribution"
    ELSE IF HasAny(ql, comparison_keywords) THEN "comparison"
    ELSE IF HasAny(ql, correlation_keywords) THEN "correlation"
    ELSE IF HasAny(ql, summary_keywords) THEN "summary"
    ELSE "auto"

\* the figure (or None) of the create function dispatched to
Create(to, d) ==
    CASE to = "time_series"  -> create_time_series_chart(d)
      [] to = "distribution" -> create_distribution_chart(d)
      [] to = "comparison"   -> create_comparison_chart(d)
      [] to = "correlation"  -> create_correlation_chart(d)
      [] to = "summary"      -> create_summary_chart(d)
      [] to = "auto"         -> create_auto_chart(d)

\* generate_smart_visualizations(data, query, result_data): only the query
\* and result_data are read
generate_smart_visualizations(d, q, result_data) ==
    Only({[Create(to, result_data) EXCEPT !.dispatch = to]
          : to \in {Dispatch(Lower(q))}})

(***************************************************************************)
(* SpecChart: the selector applied to every result frame and query         *)
(***************************************************************************)
T_show   == <<"s","h","o","w"," ">>
T_all    == <<"a","l","l">>
T_region == <<"r","e","g","i","o","n">>
T_sales  == <<"s","a","l","e","s">>
T_compare_sales_by_region ==
    <<"c","o","m","p","a","r","e"," ">> \o T_sales \o <<" ","b","y"," ">> \o T_region

\* the dtypes of the columns of a result
ChartDtypes == {"number", "object", "datetime64"}

ChartCell(dtype) ==
    CASE dtype = "number"     -> Num(1)
      [] dtype = "object"     -> Str(T_a)
      [] dtype = "datetime64" -> Date(1)

ChartColName(i) == <<"c">> \o NumberText(i)

\* a result: a column of each dtype of f, and n rows
ChartFrame(f, n) ==
    Frame([i \in DOMAIN f |-> Col(ChartColName(i), f[i])],
          [r \in 1..n |-> [i \in DOMAIN f |-> ChartCell(f[i])]])

\* [region(text), sales(numeric)]
RegionSales ==
    Frame(<<Col(T_region, "object"), Col(T_sales, "number")>>,
          << <<Str(T_a), Num(10)>>, <<Str(T_b), Num(90)>> >>)

\* results with rows (line 520), around the row limit of the summary chart
ChartFrames ==
    {ChartFrame(f, n) : f \in UNION {[1..k -> ChartDtypes] : k \in 1..MaxCols},
                        n \in {1, SummaryMaxRows, SummaryMaxRows + 1}}
    \cup {RegionSales}

KeywordFamilies ==
    <<time_series_keywords, distribution_keywords, comparison_keywords,
      correlation_keywords, summary_keywords>>

\* queries with one keyword, with the first keywords of two families in both
\* orders, in upper case, and with no keyword
ChartQueries ==
    {T_show \o KeywordFamilies[i][k] :
        i \in DOMAIN KeywordFamilies, k \in 1..3}
    \cup {T_show \o KeywordFamilies[i][Len(KeywordFamilies[i])] :
             i \in DOMAIN KeywordFamilies}
    \cup {KeywordFamilies[p[1]][1] \o <<" ">> \o KeywordFamilies[p[2]][1] :
             p \in {o \in (DOMAIN KeywordFamilies) \X (DOMAIN KeywordFamilies) :
                       o[1] # o[2]}}
    \cup {Upper(T_show \o KeywordFamilies[1][1]), T_show \o T_all,
          T_compare_sales_by_region}

\* the queries of a later script run
ChartRerunQueries ==
    {T_show \o KeywordFamilies[1][1], T_show \o T_all, T_compare_sales_by_region}

InitChart ==
    /\ input = None
    /\ output = None
    /\ source \in ChartFrames
    /\ data = source
    /\ query \in ChartQueries
    /\ pc = "select"
    /\ fast_result = None
    /\ trace = NoTrace
    /\ result = source
    /\ llmCalls = 0
    /\ searchCalls = 0
    /\ shown = <<>>
    /\ replies = <<>>
    /\ memo = {}
    /\ cacheLog = <<>>
    /\ calls = <<>>
    /\ chart = NoChart

\* chart = generate_smart_visualizations(data, query, result), line 527
SelectChart ==
    /\ pc = "select"
    /\ chart' = generate_smart_visualizations(data, query, result)
    /\ pc' = "selected"
    /\ UNCHANGED <<source, data, query, fast_result, trace, result, llmCalls,
                   searchCalls, shown, replies, memo, cacheLog, calls,
                   input, output>>

\* the next script run draws the same result for the next query
ChartRerun ==
    /\ pc = "selected"
    /\ query' \in ChartRerunQueries
    /\ chart' = NoChart
    /\ pc' = "select"
    /\ UNCHANGED <<source, data, fast_result, trace, result, llmCalls,
                   searchCalls, shown, replies, memo, cacheLog, calls,
                   input, output>>

NextChart == SelectChart \/ ChartRerun

SpecChart == InitChart /\ [][NextChart]_vars

TypeOKChart ==
    /\ pc \in {"select", "selected"}
    /\ chart.dispatch \in {"none", "time_series", "distribution", "comparison",
                            "correlation", "summary", "auto"}
    /\ chart.family \in {"none", "time_series", "distribution", "comparison",
                          "correlation", "summary"}

(***************************************************************************)
(* Claims about the visualization selector (SpecChart)                     *)
(***************************************************************************)
Selected == pc = "selected"

FamilyNames ==
    <<"time_series", "distribution", "comparison", "correlation", "summary">>

\* the keyword families present in the lower-cased query
PresentFamilies == {i \in DOMAIN KeywordFamilies : HasAny(QL, KeywordFamilies[i])}

\* C14: the selector dispatches to the first keyword family present in the
\* query in the priority time-series, distribution, comparison, correlation,
\* aggregate, and to auto-detection only when no family is present; a figure
\* it returns for a keyword is of that family.  With keywords of two families
\* the family of higher priority is dispatched to.
C14_DispatchByPriority ==
    Selected =>
        /\ chart.invoked
        /\ chart.dispatch = IF PresentFamilies = {} THEN "auto"
                            ELSE FamilyNames[Min(PresentFamilies)]
        /\ chart.dispatch # "auto" => chart.family \in {chart.dispatch, "none"}

\* C14 witness: keywords of two families, the one of lower priority written
\* first; the figure is of the family of higher priority
C14_Witness ==
    /\ Selected
    /\ Cardinality(PresentFamilies) = 2
    /\ \E i \in PresentFamilies :
           /\ i # Min(PresentFamilies)
           /\ SubSeq(QL, 1, Len(KeywordFamilies[i][1])) = KeywordFamilies[i][1]
    /\ chart.family = FamilyNames[Min(PresentFamilies)]

NumericCount == Cardinality({ci \in DOMAIN result.cols : result.cols[ci].dtype = "number"})
TextCount == Cardinality({ci \in DOMAIN result.cols : result.cols[ci].dtype = "object"})
DateCount == Cardinality({ci \in DOMAIN result.cols : result.cols[ci].dtype = "datetime64"})

\* the columns a family requires are in the result
RequiredColumns(family) ==
    CASE family = "time_series"  -> DateCount >= 1 /\ NumericCount >= 1
      [] family = "distribution" -> NumericCount >= 1
      [] family = "comparison"   -> TextCount >= 1 /\ NumericCount >= 1
      [] family = "correlation"  -> NumericCount >= 2
      [] family = "summary"      -> TextCount >= 1 /\ NumericCount >= 1
      [] OTHER -> TRUE

\* the family auto-detection chooses for the result
AutoFamily ==
    IF NumericCount >= 2 THEN "correlation"
    ELSE IF TextCount >= 1 /\ NumericCount >= 1 THEN "comparison"
    ELSE IF NumericCount >= 1 THEN "distribution"
    ELSE "none"

\* C15 (as claimed): when the family selected by keyword lacks its required
\* columns in the result, the selector returns the chart auto-detection
\* would choose for that result, not none.
C15_FallsThroughToAuto ==
    (Selected /\ chart.dispatch # "auto" /\ ~RequiredColumns(chart.dispatch)) =>
        chart.family = AutoFamily

\* C16: auto-detection chooses correlation for at least 2 numeric columns,
\* otherwise comparison for at least 1 categorical and 1 numeric column,
\* otherwise distribution for at least 1 numeric column, otherwise none.
C16_AutoDetectionPriority ==
    (Selected /\ PresentFamilies = {}) => chart.family = AutoFamily

\* C16 witness: no keyword, a text column and two numeric columns: the
\* scatter plot, not the bar chart
C16_Witness ==
    /\ Selected
    /\ PresentFamilies = {}
    /\ TextCount >= 1
    /\ NumericCount >= 2
    /\ chart.family = "correlation"

FirstOfDtype(dtype) ==
    Min({ci \in DOMAIN result.cols : result.cols[ci].dtype = dtype})

\* C17: for a query with a comparison keyword and no time-series or
\* distribution keyword, and a non-empty result with at least one text and
\* one numeric column, the selector returns family comparison with the first
\* text column as the category axis and the first numeric column as the value
\* axis.
C17_ComparisonAxes ==
    (/\ Selected
     /\ 3 \in PresentFamilies /\ 1 \notin PresentFamilies /\ 2 \notin PresentFamilies
     /\ result.rows # <<>>
     /\ TextCount >= 1 /\ NumericCount >= 1) =>
        /\ chart.family = "comparison"
        /\ chart.x = FirstOfDtype("object")
        /\ chart.y = FirstOfDtype("number")

\* C17 witness: `compare sales by region' over [region, sales] gives the
\* comparison with axes (region, sales)
C17_Witness ==
    /\ Selected
    /\ query = T_compare_sales_by_region
    /\ result = RegionSales
    /\ chart.family = "comparison"
    /\ result.cols[chart.x].name = T_region
    /\ result.cols[chart.y].name = T_sales

(***************************************************************************)
(* The query handling of src/main.py: process_and_download, process_query, *)
(* query_gemini_ai, web_search                                             *)
(***************************************************************************)
\* len(query) > 1000
MaxQueryLen == 1000

dangerous_patterns ==
    << <<"D","R","O","P">>, <<"D","E","L","E","T","E">>, <<"I","N","S","E","R","T">>,
       <<"U","P","D","A","T","E">>, <<"A","L","T","E","R">>, <<"C","R","E","A","T","E">>,
       <<"T","R","U","N","C","A","T","E">> >>

\* len(query.strip()) == 0
IsBlank(t) == \A i \in DOMAIN t : t[i] = " "

\* mutant: the verbs looked for in the query as typed, not in its upper case
validate_query_input_as_typed(q) ==
    /\ q # <<>>
    /\ ~IsBlank(q)
    /\ Len(q) <= MaxQueryLen
    /\ ~HasAny(q, dangerous_patterns)

\* the boolean validate_query_input returns
validate_query_input(q) ==
    /\ q # <<>>
    /\ ~IsBlank(q)
    /\ Len(q) <= MaxQueryLen
    /\ ~HasAny(Upper(q), dangerous_patterns)

M_empty     == <<"Q","u","e","r","y"," ","c","a","n","n","o","t"," ","b","e"," ","e","m","p","t","y">>
M_too_long  == <<"Q","u","e","r","y"," ","t","o","o"," ","l","o","n","g"," ","(","m","a","x"," ","1","0","0","0"," ","c","h","a","r","a","c","t","e","r","s",")">>
M_dangerous == <<"Q","u","e","r","y"," ","c","o","n","t","a","i","n","s"," ","p","o","t","e","n","t","i","a","l","l","y"," ","d","a","n","g","e","r","o","u","s"," ","k","e","y","w","o","r","d",":"," ">>
M_passed    == <<"Q","u","e","r","y"," ","v","a","l","i","d","a","t","i","o","n"," ","p","a","s","s","e","d">>

\* mutant: the verbs looked for ahead of the length test
validation_message_keyword_first(q) ==
    IF q = <<>> \/ IsBlank(q) THEN M_empty
    ELSE IF HasAny(Upper(q), dangerous_patterns)
    THEN M_dangerous \o dangerous_patterns[
             Min({k \in DOMAIN dangerous_patterns :
                     HasSub(Upper(q), dangerous_patterns[k])})]
    ELSE IF Len(q) > MaxQueryLen THEN M_too_long
    ELSE M_passed

\* the message validate_query_input returns with the boolean
validation_message(q) ==
    IF q = <<>> \/ IsBlank(q) THEN M_empty
    ELSE IF Len(q) > MaxQueryLen THEN M_too_long
    ELSE IF HasAny(Upper(q), dangerous_patterns)
    THEN M_dangerous \o dangerous_patterns[
             Min({k \in DOMAIN dangerous_patterns :
                     HasSub(Upper(q), dangerous_patterns[k])})]
    ELSE M_passed

\* texts the Gemini service answers with, and the texts query_gemini writes
R_analysis      == <<"t","w","o"," ","r","o","w","s"," ","m","a","t","c","h">>
R_errorword     == <<"E","r","r","o","r"," ","c","o","l","u","m","n"," ","h","a","s"," ","2"," ","v","a","l","u","e","s">>
R_nosuitable    == <<"n","o"," ","s","u","i","t","a","b","l","e"," ","c","o","l","u","m","n","s">>
R_noresponse    == <<"N","o"," ","r","e","s","p","o","n","s","e"," ","g","e","n","e","r","a","t","e","d"," ","f","r","o","m"," ","G","e","m","i","n","i",".">>
R_errorquerying == <<"E","r","r","o","r"," ","q","u","e","r","y","i","n","g"," ","G","e","m","i","n","i",":"," ","u","n","a","v","a","i","l","a","b","l","e">>
T_error         == <<"e","r","r","o","r">>
T_nosuitable    == <<"n","o"," ","s","u","i","t","a","b","l","e">>

\* what model.generate_content does: a response with text, a response whose
\* text is empty, or an exception
GeminiOutcomes ==
    {[kind |-> "text", text |-> R_analysis],
     [kind |-> "text", text |-> R_nosuitable],
     [kind |-> "text", text |-> R_errorword],
     [kind |-> "text", text |-> <<>>],
     [kind |-> "raises", text |-> <<>>]}

\* mutant: the response text handed on as it is, without the default text
query_gemini_without_default(o) ==
    IF o.kind = "raises" THEN R_errorquerying ELSE o.text

\* query_gemini: the response text, a default text, or the error text
query_gemini(o) ==
    IF o.kind = "raises" THEN R_errorquerying
    ELSE IF o.text # <<>> THEN o.text
    ELSE R_noresponse

R_aierror == <<"A","I"," ","E","r","r","o","r",":"," ","s","e","q","u","e","n","c","e"," ","i","t","e","m"," ","0",":"," ","e","x","p","e","c","t","e","d"," ","s","t","r"," ","i","n","s","t","a","n","c","e",","," ","i","n","t"," ","f","o","u","n","d">>
R_attributeerror == <<"E","r","r","o","r",":"," ","'","i","n","t","'"," ","o","b","j","e","c","t"," ","h","a","s"," ","n","o"," ","a","t","t","r","i","b","u","t","e"," ","'","l","o","w","e","r","'">>

\* `', '.join(data.columns[:10])' raises TypeError for a label that is no str
JoinRaises(d) == \E ci \in DOMAIN d.cols : ci <= 10 /\ d.cols[ci].label = "int"

\* query_gemini is reached: 1 call of the LLM, else 0
LLMCalled(d) == IF JoinRaises(d) THEN 0 ELSE 1

\* query_gemini_ai with the API key configured (the script stops at start-up
\* without one): the text of query_gemini, or the text of the exception
\* raised while the prompt is built
query_gemini_ai(o, d) == IF JoinRaises(d) THEN R_aierror ELSE query_gemini(o)

\* the keys web_search and fetch_google_search_results read of an item
SearchFields == {"title", "link", "snippet"}

\* an item of the custom search service: a dict with the keys `fields'
ProviderItem(i, fields) == [f \in fields |-> <<f, i>>]

\* what the custom search service does: an exception (of the client library
\* or of the HTTP status), or a response with or without the key 'items'
ProviderRaises == [kind |-> "raises", has_items |-> FALSE, items |-> <<>>]
ProviderResponse(has_items, items) ==
    [kind |-> "response", has_items |-> has_items, items |-> items]

SearchHit == ProviderItem(1, SearchFields \cup {"displayLink"})

\* an item the service sends without a snippet
BareHit == ProviderItem(2, {"title", "link"})

SearchOutcomes ==
    {ProviderRaises, ProviderResponse(FALSE, <<>>), ProviderResponse(TRUE, <<>>),
     ProviderResponse(TRUE, <<SearchHit>>), ProviderResponse(TRUE, <<BareHit>>)}

\* item['title'], item['link'], item['snippet'] raises KeyError for an item
\* that lacks one of the keys
ItemRaises(item) == ~(SearchFields \subseteq DOMAIN item)

\* web_search: the list of hits, or None (None also from the except, which
\* shows the error)
web_search(res) ==
    IF res.kind = "raises" \/ ~res.has_items THEN [none |-> TRUE, items |-> <<>>]
    ELSE IF \E i \in DOMAIN res.items : ItemRaises(res.items[i])
    THEN [none |-> TRUE, items |-> <<>>]
    ELSE [none |-> FALSE,
          items |-> [i \in DOMAIN res.items |->
                        [f \in SearchFields |-> res.items[i][f]]]]

\* `if web_results:'
HasResults(w) == ~w.none /\ w.items # <<>>

\* pd.DataFrame()
EmptyFrame == Frame(<<>>, <<>>)

\* one thing the handling presents to the user
Shown(kind, text, frame, hits) ==
    [kind |-> kind, text |-> text, frame |-> frame, hits |-> hits]

T_drop  == <<"d","r","o","p">>
T_blank == <<" ">>

T_DeLeTe == <<"D","e","L","e","T","e">>

\* a query of 1001 characters
T_long == [i \in 1..(MaxQueryLen + 1) |-> "x"]

T_created_at_5  == <<"c","r","e","a","t","e","d","_","a","t"," ",">"," ","5">>
T_last_updated  == <<"l","a","s","t"," ","u","p","d","a","t","e","d">>

\* 1001 blanks
T_long_blank == [i \in 1..(MaxQueryLen + 1) |-> " "]

\* queries the validation rejects: blank, too long, and with each of the
\* verbs, in lower case and in mixed case; a word that holds a verb; too long
\* and blank, too long and with a verb, and with two verbs
RejectedQueries ==
    {T_blank, T_long, T_DeLeTe \o <<" ">> \o T_xyz123}
    \cup {T_created_at_5, T_last_updated, T_long_blank,
          T_long \o <<" ">> \o T_drop, T_DeLeTe \o <<" ">> \o T_drop}
    \cup {Lower(dangerous_patterns[k]) \o <<" ">> \o T_xyz123
              : k \in DOMAIN dangerous_patterns}

\* the queries submitted to the handling: resolved by a shape, by a
\* comparison written with the words of another shape, resolved by no shape,
\* rejected by the validation, and the empty text input
PipeQueries ==
    {Cmp(T_score, ">", T_50), T_xyz123, T_howmany, T_with, <<>>}
    \cup {JoinClauses(Cmp(T_score, ">", T_50), T_count),
          JoinClauses(Cmp(T_score, ">", T_50), T_with),
          JoinClauses(Cmp(T_score, "<", T_50), Cmp(T_score, ">=", T_50))}
    \cup RejectedQueries

Init ==
    /\ input = None
    /\ output = None
    /\ source \in Datasets
    /\ data = source
    /\ query = <<>>
    /\ pc = "idle"
    /\ fast_result = None
    /\ trace = NoTrace
    /\ result = None
    /\ llmCalls = 0
    /\ searchCalls = 0
    /\ shown = <<>>
    /\ replies = <<>>
    /\ memo = {}
    /\ cacheLog = <<>>
    /\ calls = <<>>
    /\ chart = NoChart

\* mutant: the matcher's rows ignored, every query handed to the AI
HasRows_never(r) == FALSE

\* mutant: `not fast_result.empty' left out
HasRows_any_frame(r) == IsFrame(r)

\* `fast_result is not None and not fast_result.empty'
HasRows(r) == IsFrame(r) /\ ~Empty(r)

\* a script run: the upload is read again; with an empty text input nothing
\* is handled (`if query:'); otherwise the query is validated, process_query
\* entered and the pattern matcher called; a matcher result with rows is
\* returned and shown (lines 519-540); an exception of the matcher is shown
\* by process_query, which returns None (lines 605-607)
Submit ==
    /\ pc \in {"idle", "done"}
    /\ \E q \in PipeQueries :
        /\ query' = q
        /\ llmCalls' = 0
        /\ searchCalls' = 0
        /\ replies' = <<>>
        /\ IF q = <<>>
           THEN /\ data' = source
                /\ fast_result' = None
                /\ trace' = NoTrace
                /\ result' = None
                /\ shown' = <<>>
                /\ calls' = <<>>
                /\ chart' = NoChart
                /\ pc' = "idle"
           ELSE IF ~validate_query_input(q)
           THEN /\ data' = source
                /\ fast_result' = None
                /\ trace' = NoTrace
                /\ result' = None
                /\ shown' = <<Shown("validation_error", validation_message(q),
                                     None, <<>>)>>
                /\ calls' = <<"validate">>
                /\ chart' = NoChart
                /\ pc' = "done"
           ELSE \E m \in {optimized_pattern_matching(source, q)} :
                /\ data' = m.data
                /\ fast_result' = m.result
                /\ trace' = m.trace
                /\ IF m.trace.shape = "raised"
                   THEN /\ result' = None
                        /\ shown' = <<Shown("error", R_attributeerror, None, <<>>)>>
                        /\ calls' = <<"validate", "pattern">>
                        /\ chart' = NoChart
                        /\ pc' = "web_search"
                   ELSE IF HasRows(m.result)
                   THEN /\ result' = m.result
                        /\ shown' = <<Shown("query_result", <<>>, m.result, <<>>)>>
                        /\ calls' = <<"validate", "pattern", "chart">>
                        /\ chart' = generate_smart_visualizations(m.data, q, m.result)
                        /\ pc' = "done"
                   ELSE /\ result' = None
                        /\ shown' = <<>>
                        /\ calls' = <<"validate", "pattern">>
                        /\ chart' = NoChart
                        /\ pc' = "process_query_ai"
    /\ UNCHANGED <<source, memo, cacheLog,
                   input, output>>

\* process_query, lines 595-603, and the tests of lines 519-520 on what it
\* returns
ProcessQueryAI ==
    /\ pc = "process_query_ai"
    /\ \E o \in GeminiOutcomes : \E ai_response \in {query_gemini_ai(o, data)} :
        /\ llmCalls' = llmCalls + LLMCalled(data)
        /\ replies' = Append(replies, ai_response)
        /\ IF ai_response # <<>> /\ ~HasSub(Lower(ai_response), T_error)
           THEN /\ shown' = Append(shown, Shown("ai_analysis", ai_response, None, <<>>))
                /\ result' = EmptyFrame
                /\ pc' = "gemini_analysis"
           ELSE /\ shown' = shown
                /\ result' = None
                /\ pc' = "web_search"
    /\ calls' = IF LLMCalled(data) = 1 THEN Append(calls, "llm") ELSE calls
    /\ UNCHANGED <<source, data, query, fast_result, trace, searchCalls, memo,
                   cacheLog, chart,
                   input, output>>

\* process_and_download, lines 541-563: the empty DataFrame
EmptyFrameAI ==
    /\ pc = "gemini_analysis"
    /\ \E o \in GeminiOutcomes : \E response \in {query_gemini_ai(o, data)} :
        /\ llmCalls' = llmCalls + LLMCalled(data)
        /\ replies' = Append(replies, response)
        /\ IF response # <<>>
           THEN /\ shown' = Append(shown, Shown("gemini_analysis", response, None, <<>>))
                /\ searchCalls' = searchCalls
                /\ calls' = IF LLMCalled(data) = 1 THEN Append(calls, "llm") ELSE calls
                /\ pc' = "done"
           ELSE \E s \in SearchOutcomes : \E web_results \in {web_search(s)} :
                /\ searchCalls' = searchCalls + 1
                /\ calls' = IF LLMCalled(data) = 1 THEN calls \o <<"llm", "search">>
                             ELSE Append(calls, "search")
                /\ IF HasResults(web_results)
                   THEN /\ shown' = Append(shown, Shown("web_results", <<>>, None,
                                                        web_results.items))
                        /\ pc' = "done"
                   ELSE /\ shown' = shown
                        /\ pc' = "web_search"
    /\ UNCHANGED <<source, data, query, fast_result, trace, result, memo, cacheLog,
                   chart,
                   input, output>>

\* mutant: a search without results is tried again
FallbackSearch_retrying ==
    /\ pc = "web_search"
    /\ \E s \in SearchOutcomes : \E web_results \in {web_search(s)} :
        /\ searchCalls' = searchCalls + 1
        /\ IF HasResults(web_results)
           THEN /\ shown' = Append(shown, Shown("web_results", <<>>, None,
                                                web_results.items))
                /\ pc' = "done"
           ELSE /\ shown' = shown
                /\ pc' = "web_search"
    /\ calls' = Append(calls, "search")
    /\ UNCHANGED <<source, data, query, fast_result, trace, result, llmCalls,
                   replies, memo, cacheLog, chart,
                   input, output>>

\* process_and_download, lines 564-572
FallbackSearch ==
    /\ pc = "web_search"
    /\ \E s \in SearchOutcomes : \E web_results \in {web_search(s)} :
        /\ searchCalls' = searchCalls + 1
        /\ IF HasResults(web_results)
           THEN /\ shown' = Append(shown, Shown("web_results", <<>>, None,
                                                web_results.items))
                /\ pc' = "done"
           ELSE /\ shown' = shown
                /\ pc' = "gemini_response"
    /\ calls' = Append(calls, "search")
    /\ UNCHANGED <<source, data, query, fast_result, trace, result, llmCalls,
                   replies, memo, cacheLog, chart,
                   input, output>>

\* process_and_download, lines 573-582
FallbackAI ==
    /\ pc = "gemini_response"
    /\ \E o \in GeminiOutcomes : \E response \in {query_gemini_ai(o, data)} :
        /\ llmCalls' = llmCalls + LLMCalled(data)
        /\ replies' = Append(replies, response)
        /\ shown' = IF response # <<>>
                    THEN Append(shown, Shown("gemini_response", response, None, <<>>))
                    ELSE shown
    /\ pc' = "done"
    /\ calls' = IF LLMCalled(data) = 1 THEN Append(calls, "llm") ELSE calls
    /\ UNCHANGED <<source, data, query, fast_result, trace, result, searchCalls,
                   memo, cacheLog, chart,
                   input, output>>

Next == Submit \/ ProcessQueryAI \/ EmptyFrameAI \/ FallbackSearch \/ FallbackAI

Spec == Init /\ [][Next]_vars

\* the script runs one statement after the other, and a collaborator that is
\* called returns: a step of the handling that can be taken is taken
Fairness ==
    /\ WF_vars(ProcessQueryAI)
    /\ WF_vars(EmptyFrameAI)
    /\ WF_vars(FallbackSearch)
    /\ WF_vars(FallbackAI)

SpecLive == Spec /\ Fairness

TypeOK ==
    /\ pc \in {"idle", "process_query_ai", "gemini_analysis", "web_search",
               "gemini_response", "done"}
    /\ llmCalls \in 0..3
    /\ searchCalls \in 0..2

(***************************************************************************)
(* Claims about the query handling (Spec)                                  *)
(***************************************************************************)
\* the handling of `query' has begun
Handling == pc # "idle"

\* the pattern matcher returned rows
PatternRows == IsFrame(fast_result) /\ ~Empty(fast_result)

\* the kinds of presentation that carry an analysis text of the LLM
AnalysisKinds == {"ai_analysis", "gemini_analysis", "gemini_response"}

\* an AI analysis has been presented in this handling
AnalysisProduced == \E i \in DOMAIN shown : shown[i].kind \in AnalysisKinds

\* the first reply of the LLM in this handling contains "no suitable"
FirstReplyNoSuitable ==
    replies # <<>> /\ HasSub(Lower(replies[1]), T_nosuitable)

\* C6: whenever the pattern matcher returns a non-empty row set for a valid
\* query, the handling ends with that row set as its result, shows it, and
\* calls neither the LLM collaborator nor the search collaborator.
C6_PatternRowsAreTheResult ==
    (Handling /\ validate_query_input(query) /\ PatternRows) =>
        /\ pc = "done"
        /\ result = fast_result
        /\ shown = <<Shown("query_result", <<>>, fast_result, <<>>)>>
        /\ llmCalls = 0
        /\ searchCalls = 0

\* C6 witness: `score > 50' over (a,10),(b,90) returned (b,90) alone
C6_Witness ==
    /\ pc = "done"
    /\ source = Frame(SchemaA, << <<Str(T_a), Num(10)>>, <<Str(T_b), Num(90)>> >>)
    /\ query = Cmp(T_score, ">", T_50)
    /\ result = Frame(SchemaA, << <<Str(T_b), Num(90)>> >>)
    /\ llmCalls = 0
    /\ searchCalls = 0

\* C7: a step of the handling calls the search collaborator only when the
\* pattern matcher produced no rows and the AI tier has produced neither rows
\* nor an analysis text; in particular never after an AI analysis was shown.
C7_SearchOnlyAfterBothTiersFailed ==
    [][searchCalls' > searchCalls =>
          /\ ~PatternRows
          /\ ~(IsFrame(result) /\ ~Empty(result))
          /\ ~AnalysisProduced]_vars

\* C7 witness: the search was called after the LLM's reply was an error text
C7_Witness ==
    /\ searchCalls = 1
    /\ ~PatternRows
    /\ Len(replies) = 1
    /\ HasSub(Lower(replies[1]), T_error)
    /\ ~AnalysisProduced

\* C8: when no pattern shape matches and the LLM replies with a text that
\* contains "no suitable", the AI tier yields no result and the handling
\* calls the search collaborator exactly once.
C8_NoSuitableLeadsToOneSearch ==
    (pc = "done" /\ trace.shape = "none" /\ FirstReplyNoSuitable) =>
        /\ ~IsFrame(result)
        /\ ~AnalysisProduced
        /\ searchCalls = 1

\* C10: in the handling of a query the pattern matcher does not resolve, the
\* LLM collaborator is called at most once.
C10_AtMostOneLLMCall ==
    (Handling /\ ~PatternRows) => llmCalls <= 1

\* the queries C11 is about: empty or blank, over 1000 characters, or with one
\* of the seven verbs in any letter case
C11_Rejectable(q) ==
    \/ \A i \in DOMAIN q : q[i] = " "
    \/ Len(q) > 1000
    \/ \E v \in {<<"D","R","O","P">>, <<"D","E","L","E","T","E">>, <<"I","N","S","E","R","T">>, <<"U","P","D","A","T","E">>,
                 <<"A","L","T","E","R">>, <<"C","R","E","A","T","E">>, <<"T","R","U","N","C","A","T","E">>} :
           \E i \in 1..(Len(q) - Len(v) + 1) :
               \A j \in 1..Len(v) : UpperChar(q[i + j - 1]) = v[j]

ResultKind(kind) ==
    CASE kind = "query_result" -> "rows"
      [] kind \in AnalysisKinds -> "analysis"
      [] kind = "web_results" -> "hits"
      [] OTHER -> "none"

\* the result kinds this handling has presented
PresentedKinds == {ResultKind(shown[i].kind) : i \in DOMAIN shown} \ {"none"}

\* C12: a finished handling of a valid query has presented exactly one result
\* kind among rows, analysis text, search hits and no-result: never two kinds
\* together, and never an analysis text twice.
C12_ExactlyOneResultKind ==
    (pc = "done" /\ validate_query_input(query)) =>
        /\ Cardinality(PresentedKinds) <= 1
        /\ Cardinality({i \in DOMAIN shown : shown[i].kind \in AnalysisKinds}) <= 1

\* the selector was invoked in this handling
SelectorInvoked == chart.invoked \/ \E i \in DOMAIN calls : calls[i] = "chart"

\* C18: the visualization selector is invoked only when the handling produced
\* a non-empty row set: never for an empty row set, an analysis text, search
\* hits or a failed resolution.
C18_SelectorOnlyForRows ==
    SelectorInvoked =>
        /\ IsFrame(result) /\ ~Empty(result)
        /\ \A i \in DOMAIN shown : shown[i].kind = "query_result"
        /\ llmCalls = 0 /\ searchCalls = 0

\* C18 witness: rows were shown and the selector drew a figure for them
C18_Witness ==
    /\ pc = "done"
    /\ chart.invoked
    /\ chart.family # "none"
    /\ IsFrame(result) /\ ~Empty(result)

\* the tier of a call comes before position i of this handling's calls
CalledBefore(tier, i) == \E j \in 1..(i - 1) : calls[j] = tier

\* C13: in every handling the tiers run in the order validation, pattern
\* matching, AI tier, web search: no LLM or search call comes before the
\* pattern match attempt, and no search call comes before the first LLM call.
C13_TiersInFixedOrder ==
    \A i \in DOMAIN calls :
        /\ calls[i] = "pattern" => CalledBefore("validate", i)
        /\ calls[i] \in {"llm", "search"} => CalledBefore("pattern", i)
        /\ calls[i] = "search" => CalledBefore("llm", i)

\* the LLM was called in this handling, and the reply to its first prompt
\* holds one of the failure indicators
FirstReplySignalsFailure ==
    /\ llmCalls >= 1
    /\ replies # <<>>
    /\ \/ HasSub(Lower(replies[1]), T_nosuitable)
       \/ HasSub(Lower(replies[1]), T_error)

\* the position of the first LLM call among the calls of this handling
FirstLLMCall == CHOOSE i \in DOMAIN calls :
                    calls[i] = "llm" /\ \A j \in 1..(i - 1) : calls[j] # "llm"

\* C21: whenever the LLM reply to the first prompt contains "no suitable" or
\* "error", whatever the case, the AI tier presents neither rows nor an
\* analysis text from that reply, and the next tier to run is the web search.
C21_FailureReplyPassesToSearch ==
    FirstReplySignalsFailure =>
        /\ \A i \in DOMAIN shown : shown[i].kind # "ai_analysis"
        /\ pc # "gemini_analysis"
        /\ FirstLLMCall < Len(calls) => calls[FirstLLMCall + 1] = "search"

\* a verb of the list is a substring of the query, whatever the case
HoldsVerb(q, v) ==
    \E i \in 1..(Len(q) - Len(v) + 1) :
        \A j \in 1..Len(v) : UpperChar(q[i + j - 1]) = v[j]

\* the reason of the first failing test: empty, over-length, forbidden verb
\* (<<>> when no test fails)
FirstFailingReason(q) ==
    IF \A i \in DOMAIN q : q[i] = " " THEN M_empty
    ELSE IF Len(q) > 1000 THEN M_too_long
    ELSE IF \E k \in DOMAIN dangerous_patterns : HoldsVerb(q, dangerous_patterns[k])
    THEN M_dangerous
    ELSE <<>>

\* C27: the verbs are matched as substrings of the whole query whatever the
\* case, so a query that only mentions a word holding one (created_at > 5,
\* last updated) is rejected and reaches no tier; the tests run in the order
\* empty, over-length, forbidden verb, and the reason shown is that of the
\* first failing test.
C27_SubstringVerbsAndFirstReason ==
    (query # <<>> /\ FirstFailingReason(query) # <<>>) =>
        /\ pc = "done"
        /\ calls = <<"validate">>
        /\ llmCalls = 0 /\ searchCalls = 0 /\ fast_result = None
        /\ Len(shown) = 1
        /\ shown[1].kind = "validation_error"
        /\ SubSeq(shown[1].text, 1, Len(FirstFailingReason(query)))
               = FirstFailingReason(query)
        /\ FirstFailingReason(query) \in {M_empty, M_too_long}
               => shown[1].text = FirstFailingReason(query)

\* C27 witness: `created_at > 5' was rejected for the verb CREATE
C27_Witness ==
    /\ pc = "done"
    /\ query = T_created_at_5
    /\ calls = <<"validate">>
    /\ shown[1].text = M_dangerous \o <<"C","R","E","A","T","E">>

\* the rows that satisfy the comparison recognised in the query: the column
\* and number of the match, and the operator of the expression that matched
RecognisedRows ==
    LET pat == patterns[Min(HonouredPatterns(source, QL))]
        m   == ReSearch(QL, OpText(pat))
    IN  ExpectedRows(source, Min(ColumnsNamed(source, m.g1)), pat,
                     ParseNumber(m.g2))

\* a numeric comparison is recognised and no row satisfies it
ComparisonWithoutRows ==
    /\ Len(calls) >= 2
    /\ HonouredPatterns(source, QL) # {}
    /\ Empty(RecognisedRows)

\* C28: when a numeric comparison is recognised but no row satisfies it, the
\* matcher returns the empty row set at once, without trying the contains and
\* count shapes, and the handling treats it as a miss: no rows result is
\* shown and the next call is the LLM collaborator's.
C28_EmptyComparisonIsAMiss ==
    ComparisonWithoutRows =>
        /\ IsFrame(fast_result) /\ Empty(fast_result)
        /\ trace.shape = "numeric"
        /\ \A i \in DOMAIN shown : shown[i].kind # "query_result"
        /\ Len(calls) = 2 => pc = "process_query_ai"
        /\ Len(calls) >= 3 => calls[3] = "llm"

\* how often a tier was called in this handling
TimesCalled(tier) == Cardinality({i \in DOMAIN calls : calls[i] = tier})

\* C29: every handling of one query ends after a bounded number of
\* collaborator calls, whatever the collaborators return: at most 3 LLM calls
\* and at most 2 search calls, the validation and the pattern matcher run at
\* most once, and a handling that has begun reaches its end.
C29_BoundedCallsAndTermination ==
    /\ [](/\ llmCalls <= 3 /\ TimesCalled("llm") <= 3
          /\ searchCalls <= 2 /\ TimesCalled("search") <= 2
          /\ TimesCalled("validate") <= 1
          /\ TimesCalled("pattern") <= 1
          /\ TimesCalled("chart") <= 1)
    /\ (pc \notin {"idle", "done"}) ~> (pc = "done")

\* C29 witness: a handling that ended after the LLM, the search and the LLM
\* again were called
C29_Witness ==
    /\ pc = "done"
    /\ calls = <<"validate", "pattern", "llm", "search", "llm">>
    /\ llmCalls = 2
    /\ searchCalls = 1

\* the texts a failure of the LLM collaborator is turned into: the one of
\* query_gemini's handler and the one of query_gemini_ai's handler
FailureTexts == {R_errorquerying, R_aierror}

\* the reply is presented to the user as what the AI produced
PresentedAsAI(text) ==
    \E k \in DOMAIN shown :
        /\ shown[k].kind \in {"ai_analysis", "gemini_analysis", "gemini_response"}
        /\ shown[k].text = text

\* C24 (as claimed): a failure of the LLM collaborator never leaves the query
\* handling as an exception; it is turned into an error text, the AI tier
\* is treated as having produced nothing (the error text is not presented as
\* its product), and the handling goes on to the next tier (it ends on a
\* failed reply only when the search, the one other tier, has run).
C24_LLMFailureYieldsNothing ==
    \A i \in DOMAIN replies :
        replies[i] \in FailureTexts =>
            /\ ~PresentedAsAI(replies[i])
            /\ (i = Len(replies) /\ pc = "done") => searchCalls >= 1

(***************************************************************************)
(* The AI response cache of src/apps/streamlit-app/main.py:                *)
(* cached_ai_response under st.cache_data, and query_gemini_ai             *)
(***************************************************************************)
\* resolutions and expiries followed in one behaviour
MaxResolutions == 3

R_nomodels == <<"E","r","r","o","r",":"," ","N","o"," ","s","u","i","t","a","b","l","e"," ","G","e","m","i","n","i"," ","m","o","d","e","l","s"," ","a","v","a","i","l","a","b","l","e"," ","f","o","r"," ","c","o","n","t","e","n","t"," ","g","e","n","e","r","a","t","i","o","n",".">>

\* what the Gemini service does for the streamlit app's query_gemini: no
\* model to generate with, a response with text, a response whose text is
\* empty, or an exception
CacheGeminiOutcomes ==
    {[kind |-> "text", text |-> R_analysis],
     [kind |-> "text", text |-> R_nosuitable],
     [kind |-> "text", text |-> <<>>],
     [kind |-> "raises", text |-> <<>>],
     [kind |-> "no_models", text |-> <<>>]}

\* query_gemini of the streamlit app
streamlit_query_gemini(o) ==
    IF o.kind = "no_models" THEN R_nomodels
    ELSE IF o.kind = "raises" THEN R_errorquerying
    ELSE IF o.text # <<>> THEN o.text
    ELSE R_noresponse

CacheQueries == {T_xyz123, T_howmany}
CacheDatasets ==
    {Frame(SchemaA, << <<Str(T_a), Num(10)>> >>),
     Frame(SchemaA, << <<Str(T_b), Num(90)>> >>)}

\* generate_query_hash and generate_data_hash: the fingerprint of a query and
\* a dataset (distinct inputs of the model have distinct fingerprints)
CacheKey(q, d) == <<q, d>>

\* the body of cached_ai_response: `return None'
cached_ai_response_body(key) == None

\* st.cache_data: the stored value for the arguments when there is one, and
\* the value of the body otherwise
cached_ai_response(m, key) ==
    IF \E e \in m : e.key = key
    THEN (CHOOSE e \in m : e.key = key).value
    ELSE cached_ai_response_body(key)

\* the memo after a call: the value of the body is stored on a miss
Memoised(m, key) ==
    IF \E e \in m : e.key = key THEN m
    ELSE m \cup {[key |-> key, value |-> cached_ai_response_body(key)]}

\* `if cached_result:'
IsCachedText(v) == v # None /\ v # <<>>

InitCache ==
    /\ input = None
    /\ output = None
    /\ source \in CacheDatasets
    /\ data = source
    /\ query = <<>>
    /\ pc = "cache"
    /\ fast_result = None
    /\ trace = NoTrace
    /\ result = None
    /\ llmCalls = 0
    /\ searchCalls = 0
    /\ shown = <<>>
    /\ replies = <<>>
    /\ memo = {}
    /\ cacheLog = <<>>
    /\ calls = <<>>
    /\ chart = NoChart

\* one call query_gemini_ai(query, data): the cache lookup, the call of
\* query_gemini on a miss, the second call of cached_ai_response
Resolve ==
    /\ Len(cacheLog) < MaxResolutions
    /\ \E q \in CacheQueries, d \in CacheDatasets :
       \E cached_result \in {cached_ai_response(memo, CacheKey(q, d))} :
        /\ query' = q
        /\ data' = d
        /\ memo' = Memoised(memo, CacheKey(q, d))
        /\ IF IsCachedText(cached_result)
           THEN /\ llmCalls' = llmCalls
                /\ cacheLog' = Append(cacheLog,
                       [kind |-> "resolve", key |-> CacheKey(q, d),
                        called |-> FALSE, text |-> cached_result])
           ELSE \E o \in CacheGeminiOutcomes :
                \E response \in {streamlit_query_gemini(o)} :
                /\ llmCalls' = llmCalls + 1
                /\ cacheLog' = Append(cacheLog,
                       [kind |-> "resolve", key |-> CacheKey(q, d),
                        called |-> TRUE, text |-> response])
    /\ UNCHANGED <<source, pc, fast_result, trace, result, searchCalls, shown,
                   replies, calls, chart,
                   input, output>>

\* ttl=1800: the entry of a key leaves the memo when its time is up
Expire ==
    /\ Len(cacheLog) < MaxResolutions
    /\ \E e \in memo :
        /\ memo' = memo \ {e}
        /\ cacheLog' = Append(cacheLog,
               [kind |-> "expire", key |-> e.key, called |-> FALSE, text |-> <<>>])
    /\ UNCHANGED <<source, data, query, pc, fast_result, trace, result, llmCalls,
                   searchCalls, shown, replies, calls, chart,
                   input, output>>

NextCache == Resolve \/ Expire

SpecCache == InitCache /\ [][NextCache]_vars

(***************************************************************************)
(* Claims about the AI response cache (SpecCache)                          *)
(***************************************************************************)
\* resolutions i < j of one fingerprint with no expiry of it between them
WithinTTL(i, j) ==
    /\ i < j
    /\ cacheLog[i].kind = "resolve"
    /\ cacheLog[j].kind = "resolve"
    /\ cacheLog[i].key = cacheLog[j].key
    /\ \A k \in (i + 1)..(j - 1) :
           ~(cacheLog[k].kind = "expire" /\ cacheLog[k].key = cacheLog[i].key)

\* C9: two AI resolutions of the same query over the same dataset within the
\* cache TTL return the identical text and call the LLM collaborator at most
\* once in total.
C9_CacheIdempotence ==
    \A i, j \in DOMAIN cacheLog :
        WithinTTL(i, j) =>
            /\ cacheLog[i].text = cacheLog[j].text
            /\ ~(cacheLog[i].called /\ cacheLog[j].called)


(***************************************************************************)
(* Helper functions called on their own: web_search of src/main.py and the *)
(* functions of src/google_api.py                                          *)
(***************************************************************************)
\* items in one response of the search service
MaxItems == 2

\* `'num': min(num_results, 10)'
SearchApiLimit == 10

\* no handling is going on
IdleHandling ==
    /\ source = None
    /\ data = None
    /\ query = <<>>
    /\ fast_result = None
    /\ trace = NoTrace
    /\ result = None
    /\ llmCalls = 0
    /\ searchCalls = 0
    /\ shown = <<>>
    /\ replies = <<>>
    /\ memo = {}
    /\ cacheLog = <<>>
    /\ calls = <<>>
    /\ chart = NoChart

\* the module state of google_api.py after its imports, and the keys of the
\* environment
Environments ==
    [REQUESTS_AVAILABLE : BOOLEAN, GOOGLE_API_AVAILABLE : BOOLEAN,
     api_key : BOOLEAN, search_engine_id : BOOLEAN]

ProviderItems ==
    {SearchHit, ProviderItem(2, SearchFields), BareHit}

\* the responses of the search service, items in the order it sends them
ProviderResponses ==
    {ProviderRaises, ProviderResponse(FALSE, <<>>)}
    \cup {ProviderResponse(TRUE, items) :
             items \in UNION {[1..n -> ProviderItems] : n \in 0..MaxItems}}

\* what a function did and returned: its value (none for None), the requests
\* it sent, and whether an exception left it
Returned(none, value, requests) ==
    [none |-> none, value |-> value, requests |-> requests, raised |-> FALSE]

\* a request to the custom search service, with or without the parameter num
SearchRequest(num_given, num) ==
    [to |-> "customsearch", num_given |-> num_given, num |-> num]

\* item.get(f, '')
ItemGet(item, f) == IF f \in DOMAIN item THEN item[f] ELSE <<>>

\* fetch_google_search_results(query, num_results)
fetch_google_search_results(env, num_results, res) ==
    IF ~env.REQUESTS_AVAILABLE THEN Returned(FALSE, <<>>, <<>>)
    ELSE IF ~(env.api_key /\ env.search_engine_id) THEN Returned(FALSE, <<>>, <<>>)
    ELSE \* requests.get, raise_for_status, response.json()
         Only({IF res.kind = "raises" THEN Returned(FALSE, <<>>, <<rq>>)
               ELSE IF ~res.has_items THEN Returned(FALSE, <<>>, <<rq>>)
               ELSE Returned(FALSE,
                             [i \in DOMAIN res.items |->
                                 [f \in SearchFields |-> ItemGet(res.items[i], f)]],
                             <<rq>>)
               : rq \in {SearchRequest(TRUE, Min({num_results, SearchApiLimit}))}})

\* web_search(query) of src/main.py as a call of its own: the request is
\* built and executed without the parameter num
WebSearchCall(res) ==
    Only({Returned(w.none, w.items, <<SearchRequest(FALSE, 0)>>)
          : w \in {web_search(res)}})

\* build('sheets', 'v4', developerKey=api_key): the service, or an exception
BuildOutcomes == {"service", "raises"}

\* authenticate_google_sheets()
authenticate_google_sheets(env, b) ==
    IF ~env.GOOGLE_API_AVAILABLE THEN Returned(TRUE, <<>>, <<>>)
    ELSE IF ~env.api_key THEN Returned(TRUE, <<>>, <<>>)
    ELSE IF b = "raises" THEN Returned(TRUE, <<>>, <<>>)
    ELSE Returned(FALSE, "service", <<>>)

\* what the sheets service answers to a values request: an exception (of the
\* connection or of the HTTP status), or a body with or without 'values'
SheetOutcomes ==
    {[kind |-> "raises", has_values |-> FALSE, values |-> <<>>],
     [kind |-> "response", has_values |-> FALSE, values |-> <<>>],
     [kind |-> "response", has_values |-> TRUE, values |-> << <<"h">>, <<"v">> >>]}

SheetRequest == [to |-> "sheets", num_given |-> FALSE, num |-> 0]

\* mutant: the request sent without the test of REQUESTS_AVAILABLE
read_google_sheet_public_unguarded(env, sh) ==
    IF sh.kind = "raises" THEN Returned(TRUE, <<>>, <<SheetRequest>>)
    ELSE Returned(FALSE, sh.values, <<SheetRequest>>)

\* read_google_sheet_public(spreadsheet_id, range_name, api_key)
read_google_sheet_public(env, sh) ==
    IF ~env.REQUESTS_AVAILABLE THEN Returned(TRUE, <<>>, <<>>)
    ELSE IF sh.kind = "raises" THEN Returned(TRUE, <<>>, <<SheetRequest>>)
    ELSE Returned(FALSE, sh.values, <<SheetRequest>>)

\* str.find(sub, start): the first position from start on where sub begins,
\* 0 when there is none (positions count from 1; Python's -1 is 0 here)
Find(text, sub, start) ==
    IF \E i \in start..(Len(text) - Len(sub) + 1) :
           SubSeq(text, i, i + Len(sub) - 1) = sub
    THEN CHOOSE i \in start..(Len(text) - Len(sub) + 1) :
             /\ SubSeq(text, i, i + Len(sub) - 1) = sub
             /\ \A j \in start..(i - 1) : SubSeq(text, j, j + Len(sub) - 1) # sub
    ELSE 0

T_marker ==
    <<"/","s","p","r","e","a","d","s","h","e","e","t","s","/","d","/">>

\* the end of the ID: the first `/', else the first `?', else the first `#',
\* else the end of the URL
SheetIdEnd(url, start) ==
    IF Find(url, <<"/">>, start) # 0 THEN Find(url, <<"/">>, start)
    ELSE IF Find(url, <<"?">>, start) # 0 THEN Find(url, <<"?">>, start)
    ELSE IF Find(url, <<"#">>, start) # 0 THEN Find(url, <<"#">>, start)
    ELSE Len(url) + 1

\* extract_sheet_id_from_url(url), url a str
extract_sheet_id_from_url(url) ==
    IF Find(url, T_marker, 1) # 0
    THEN Only({Returned(FALSE, SubSeq(url, start, SheetIdEnd(url, start) - 1), <<>>)
               : start \in {Find(url, T_marker, 1) + Len(T_marker)}})
    ELSE Returned(FALSE, url, <<>>)

(***************************************************************************)
(* The dataset context extractors of src/apps/streamlit-app:               *)
(* get_data_context and analyze_dataset_automatically                      *)
(***************************************************************************)
\* columns of a dataset handed to an extractor
MaxContextCols == 2

\* `if len(unique_vals) <= 20' and `unique_vals[:10]' of get_data_context
ContextAllLimit == 20
ContextSample == 10

\* `unique_count <= 10', `unique_count <= 50', `unique_vals[:10]' and
\* `unique_vals[:5]' of analyze_dataset_automatically
AnalysisAllLimit == 10
AnalysisSampleLimit == 50
AnalysisSample == 10
AnalysisFewSample == 5

\* Series.dropna().unique(): the non-null values, each once, in the order of
\* their first appearance
FirstAppearances(cells) ==
    {i \in DOMAIN cells :
        cells[i].k # "nan" /\ \A j \in 1..(i - 1) : cells[j] # cells[i]}

Unique(cells) ==
    Only({[n \in 1..Cardinality(keep) |->
              cells[CHOOSE i \in keep : Cardinality({j \in keep : j <= i}) = n]]
          : keep \in {FirstAppearances(cells)}})

\* unique_vals[:n]
FirstValues(values, n) == SubSeq(values, 1, Min({n, Len(values)}))

\* the values listed for a column, whether a mark that more exist follows
\* them, and whether the range is given in their place
Listing(values, more, range) == [values |-> values, more |-> more, range |-> range]

ColumnCells(d, ci) == [r \in DOMAIN d.rows |-> d.rows[r][ci]]

\* what an extractor returns: the columns and, per column, its listing
Described(d, listing) ==
    [none |-> FALSE, raised |-> FALSE, requests |-> <<>>,
     value |-> [columns |-> [ci \in DOMAIN d.cols |-> d.cols[ci].name],
                listing |-> listing]]

\* get_data_context(data): context["sample_values"]
get_data_context(d) ==
    Described(d,
        [ci \in DOMAIN d.cols |->
            Only({IF Len(unique_vals) <= ContextAllLimit
                  THEN Listing(unique_vals, FALSE, FALSE)
                  ELSE Listing(FirstValues(unique_vals, ContextSample), TRUE, FALSE)
                  : unique_vals \in {Unique(ColumnCells(d, ci))}})])

\* analyze_dataset_automatically(data): the column details
analyze_dataset_automatically(d) ==
    Described(d,
        [ci \in DOMAIN d.cols |->
            Only({IF Len(unique_vals) <= AnalysisAllLimit
                  THEN Listing(unique_vals, FALSE, FALSE)
                  ELSE IF Len(unique_vals) <= AnalysisSampleLimit
                  THEN Listing(FirstValues(unique_vals, AnalysisSample), TRUE, FALSE)
                  ELSE IF is_numeric_dtype(d.cols[ci].dtype)
                  THEN Listing(<<>>, FALSE, TRUE)
                  ELSE Listing(FirstValues(unique_vals, AnalysisFewSample), TRUE, FALSE)
                  : unique_vals \in {Unique(ColumnCells(d, ci))}})])

\* how many distinct values the columns of the datasets hold
DistinctCounts ==
    {1, AnalysisAllLimit, AnalysisAllLimit + 1, ContextAllLimit,
     ContextAllLimit + 1, AnalysisSampleLimit + 1}

ContextValue(dtype, i) == IF dtype = "number" THEN Num(i) ELSE Str(NumberText(i))

\* a column of n distinct values, the first of them twice, with or without
\* a missing value ahead of them
ContextColumn(dtype, n, missing) ==
    [dtype |-> dtype,
     cells |-> (IF missing THEN <<NaN>> ELSE <<>>)
               \o [i \in 1..n |-> ContextValue(dtype, i)]
               \o <<ContextValue(dtype, 1)>>]

ContextColumns ==
    {ContextColumn(dtype, n, missing) :
        dtype \in {"number", "object"}, n \in DistinctCounts, missing \in BOOLEAN}

\* columns of one length side by side: the shorter padded with missing values
ContextFrame(cs) ==
    Frame([ci \in DOMAIN cs |-> Col(ChartColName(ci), cs[ci].dtype)],
          [r \in 1..(AnalysisSampleLimit + 3) |->
              [ci \in DOMAIN cs |->
                  IF r <= Len(cs[ci].cells) THEN cs[ci].cells[r] ELSE NaN]])

\* datasets of 0 to MaxContextCols columns
ContextDatasets ==
    {ContextFrame(cs) :
        cs \in UNION {[1..n -> ContextColumns] : n \in 0..MaxContextCols}}

(***************************************************************************)
(* The AI tier of src/apps/streamlit-app/main.py: process_query,           *)
(* extract_structured_data, query_gemini_simple, basic_fallback_processing *)
(***************************************************************************)
\* a text a function returned, or None
TextOf(t) == [none |-> FALSE, text |-> t]
NoText == [none |-> TRUE, text |-> <<>>]

\* `if response:' for a text or None
Truthy(r) == ~r.none /\ r.text # <<>>

\* ['where', 'filter', 'records', 'rows']
filter_phrases ==
    << <<"w","h","e","r","e">>, <<"f","i","l","t","e","r">>,
       <<"r","e","c","o","r","d","s">>, <<"r","o","w","s">> >>

T_data_open == <<"d","a","t","a","[">>
T_data_dot == <<"d","a","t","a",".">>

\* re.search(r'data\[(.*?)\]', text) on a text of one line: group 1 is the
\* text between the first `data[' and the first `]' after it
FilterMatch(text) ==
    Only({IF i = 0 \/ Find(text, <<"]">>, i + 5) = 0
          THEN [matched |-> FALSE, group |-> <<>>]
          ELSE [matched |-> TRUE,
                group |-> SubSeq(text, i + 5, Find(text, <<"]">>, i + 5) - 1)]
          : i \in {Find(text, T_data_open, 1)}})

\* what evaluating a filter expression gives: a frame, or an exception
Evaluated(frame) == [raised |-> FALSE, frame |-> frame]
EvalRaises == [raised |-> TRUE, frame |-> None]

ComparisonOps == {">", "<", ">=", "<=", "==", "!="}

\* series OP number: an object column raises TypeError for an ordering and
\* compares unequal to every number
CompareColumn(d, ci, op, thr) ==
    IF is_numeric_dtype(d.cols[ci].dtype)
    THEN Evaluated(FilterRows(d, [r \in DOMAIN d.rows |-> Compare(d.rows[r][ci], op, thr)]))
    ELSE IF op \in {"==", "!="}
    THEN Evaluated(FilterRows(d, [r \in DOMAIN d.rows |-> op = "!="]))
    ELSE EvalRaises

\* the expressions  NAME OP NUMBER  with blanks between the three parts;
\* NAME is looked up among the columns with the prefix taken off. Any other
\* expression among the inputs is one Python raises for.
EvalComparison(d, expr, prefix) ==
    Only({IF /\ Len(words) = 3
             /\ \E op \in ComparisonOps : OpText(op) = words[2]
             /\ IsDigits(words[3])
             /\ Len(words[3]) <= 3
             /\ SubSeq(words[1], 1, Len(prefix)) = prefix
             /\ \E ci \in DOMAIN d.cols :
                    d.cols[ci].name = SubSeq(words[1], Len(prefix) + 1, Len(words[1]))
          THEN CompareColumn(d,
                   CHOOSE ci \in DOMAIN d.cols :
                       d.cols[ci].name = SubSeq(words[1], Len(prefix) + 1, Len(words[1])),
                   CHOOSE op \in ComparisonOps : OpText(op) = words[2],
                   ParseNumber(words[3]))
          ELSE EvalRaises
          : words \in {Split(expr)}})

\* data.query(filter_expr): the names of the expression are columns
data_query(d, expr) == EvalComparison(d, expr, <<>>)

\* eval(f"data[{filter_expr}]"): only `data' is a name in scope
eval_data_index(d, expr) == EvalComparison(d, expr, T_data_dot)

\* GEMINI_API_KEY at the time of a call: the script stops at start-up
\* without it
ApiKeyStates == {TRUE}

\* query_gemini_simple(query): the text of query_gemini, None without a key
query_gemini_simple(key, o) ==
    IF key THEN TextOf(streamlit_query_gemini(o)) ELSE NoText

\* the LLM is asked for the filter: the first reply holds a filter phrase
AsksForFilter(ai_response) == HasAny(Lower(ai_response), filter_phrases)

\* mutant: no handler around the evaluation of the expression
extract_structured_data_unhandled(ai_response, d, filter_code_response) ==
    IF ~AsksForFilter(ai_response) THEN Evaluated(None)
    ELSE IF ~(Truthy(filter_code_response)
              /\ HasSub(filter_code_response.text, T_data_open))
    THEN Evaluated(None)
    ELSE \* the match and the evaluation
         Only({IF ~m.matched THEN Evaluated(None)
               ELSE IF ~HasSub(m.group, <<".">>) THEN data_query(d, m.group)
               ELSE eval_data_index(d, m.group)
               : m \in {FilterMatch(filter_code_response.text)}})

\* extract_structured_data(ai_response, data, original_query), given the
\* reply to the filter query: the filtered frame, or None
extract_structured_data(ai_response, d, filter_code_response) ==
    IF ~AsksForFilter(ai_response) THEN Evaluated(None)
    ELSE IF ~(Truthy(filter_code_response)
              /\ HasSub(filter_code_response.text, T_data_open))
    THEN Evaluated(None)
    ELSE Only({IF ~m.matched THEN Evaluated(None)
               ELSE Only({IF r.raised THEN Evaluated(None) ELSE r
                          : r \in {IF ~HasSub(m.group, <<".">>)
                                   THEN data_query(d, m.group)
                                   ELSE eval_data_index(d, m.group)}})
               : m \in {FilterMatch(filter_code_response.text)}})

\* what st.write, st.info and st.error put on the page
Written(kind, text) == [kind |-> kind, text |-> text]

\* what process_query did: the value returned (none for None), the calls of
\* the LLM, what was written, and whether an exception left it
Processed(none, value, requests, written) ==
    [none |-> none, value |-> value, requests |-> requests, raised |-> FALSE,
     written |-> written]

\* the rows whose main column holds the word, for the first word of more
\* than two characters that any row holds
WordMatches(d, ci, word) ==
    FilterRows(d, [r \in DOMAIN d.rows |->
                      d.rows[r][ci].k # "nan" /\ HasSub(Lower(AsStr(d.rows[r][ci])), word)])

\* basic_fallback_processing(data, query, main_column)
basic_fallback_processing(d, q, main_column) ==
    Only({IF \E ci \in DOMAIN d.cols : d.cols[ci].name = main_column
          THEN Only({IF \E k \in DOMAIN words :
                           Len(words[k]) > 2 /\ ~Empty(WordMatches(d, ci, words[k]))
                     THEN Only({[frame |-> WordMatches(d, ci, words[k]),
                                 written |-> <<Written("found", words[k])>>]
                                : k \in {CHOOSE k \in DOMAIN words :
                                    /\ Len(words[k]) > 2
                                    /\ ~Empty(WordMatches(d, ci, words[k]))
                                    /\ \A j \in 1..(k - 1) :
                                          ~(Len(words[j]) > 2
                                            /\ ~Empty(WordMatches(d, ci, words[j])))}})
                     ELSE [frame |-> EmptyFrame, written |-> <<>>]
                     : ci \in {CHOOSE ci \in DOMAIN d.cols : d.cols[ci].name = main_column}})
          ELSE [frame |-> EmptyFrame, written |-> <<>>]
          : words \in {Split(Lower(q))}})

\* process_query(data, query, main_column) of the streamlit app, given the
\* reply of query_gemini_ai and what the LLM answers to the filter query
app_process_query(d, q, main_column, ai_response, key, o2) ==
    IF /\ Truthy(ai_response)
       /\ ~HasSub(Lower(ai_response.text), T_nosuitable)
       /\ ~HasSub(Lower(ai_response.text), T_error)
    THEN Only({IF structured_result.raised
               THEN Processed(TRUE, None, requests,
                        <<Written("error", <<>>)>>)
               ELSE IF structured_result.frame # None /\ ~Empty(structured_result.frame)
               THEN Processed(FALSE, structured_result.frame, requests,
                        <<Written("AI Analysis Result", ai_response.text)>>)
               ELSE Processed(FALSE, EmptyFrame, requests,
                        <<Written("AI Analysis", ai_response.text)>>)
               : structured_result \in
                     {extract_structured_data(ai_response.text, d,
                                              query_gemini_simple(key, o2))},
                 requests \in
                     {IF AsksForFilter(ai_response.text) /\ key
                      THEN <<"query_gemini_ai", "query_gemini_simple">>
                      ELSE <<"query_gemini_ai">>}})
    ELSE Only({Processed(FALSE, fb.frame, <<"query_gemini_ai">>,
                         <<Written("info", <<>>)>> \o fb.written)
               : fb \in {basic_fallback_processing(d, q, main_column)}})

\* texts the LLM answers the filter query with
F_none       == <<"n","o"," ","c","o","d","e">>
F_open       == T_data_open \o T_score
F_query      == T_data_open \o T_score \o <<" ",">"," ","5","0","]">>
F_query_none == T_data_open \o T_score \o <<" ",">"," ","9","9","]">>
F_unknown    == T_data_open \o T_age \o <<" ",">"," ","5","0","]">>
F_ordering   == T_data_open \o T_name \o <<" ",">"," ","5","0","]">>
F_attribute  == T_data_open \o T_data_dot \o T_score \o <<" ","<"," ","5","0","]">>
F_noattr     == T_data_open \o T_data_dot \o T_age \o <<" ","<"," ","5","0","]">>
F_decimal    == T_data_open \o T_score \o <<" ",">"," ","5",".","5","]">>
F_example    == T_data_open \o <<"d","a","t","a","[","'">> \o T_score
                    \o <<"'","]"," ",">"," ","5","0","]">>

FilterReplies ==
    {F_none, F_open, F_query, F_query_none, F_unknown, F_ordering, F_attribute,
     F_noattr, F_decimal, F_example}

\* what the Gemini service does when asked for the filter
FilterOutcomes ==
    {[kind |-> "text", text |-> t] : t \in FilterReplies}
    \cup {[kind |-> "text", text |-> <<>>], [kind |-> "raises", text |-> <<>>],
          [kind |-> "no_models", text |-> <<>>]}

\* query_gemini_ai of the streamlit app: the text of query_gemini (the body
\* of cached_ai_response stores nothing), None when building the context or
\* the fingerprints raises
AnalysisReplies ==
    {TextOf(streamlit_query_gemini(o)) : o \in CacheGeminiOutcomes} \cup {NoText}

AppDatasets ==
    {Frame(SchemaA, << <<Str(T_a), Num(10)>>, <<Str(T_withers), Num(90)>> >>),
     Frame(SchemaA, <<>>)}
AppQueries == {T_howmany, T_withers}
MainColumns == {T_name, T_age}

\* characters after the marker in a URL
MaxTail == 3

T_docs == <<"d","o","c","s",".","g","o","o","g","l","e",".","c","o","m">>
T_id   == <<"1","A","b","C">>

\* what follows the marker: letters of an ID and the three delimiters
TailChars == {"A", "/", "?", "#"}

\* the URLs and bare IDs typed into the sheet input
SheetUrls ==
    {p \o T_marker \o t :
        p \in {<<>>, T_docs},
        t \in UNION {[1..n -> TailChars] : n \in 0..MaxTail}}
    \cup {T_id, T_docs, T_docs \o <<"/">> \o T_id \o <<"?">>, <<"#">>}

\* num_results of a call
NumResults == {1, SearchApiLimit, SearchApiLimit + 1}

InitHelpers ==
    /\ IdleHandling
    /\ pc = "ready"
    /\ input = None
    /\ output = None

CallWebSearch ==
    /\ pc = "ready"
    /\ \E res \in ProviderResponses :
        /\ input' = [fn |-> "web_search", res |-> res]
        /\ output' = WebSearchCall(res)
    /\ pc' = "returned"
    /\ UNCHANGED handling_vars

CallFetchSearchResults ==
    /\ pc = "ready"
    /\ \E env \in Environments, n \in NumResults, res \in ProviderResponses :
        /\ input' = [fn |-> "fetch_google_search_results", env |-> env,
                     num_results |-> n, res |-> res]
        /\ output' = fetch_google_search_results(env, n, res)
    /\ pc' = "returned"
    /\ UNCHANGED handling_vars

CallAuthenticate ==
    /\ pc = "ready"
    /\ \E env \in Environments, b \in BuildOutcomes :
        /\ input' = [fn |-> "authenticate_google_sheets", env |-> env, build |-> b]
        /\ output' = authenticate_google_sheets(env, b)
    /\ pc' = "returned"
    /\ UNCHANGED handling_vars

CallReadSheetPublic ==
    /\ pc = "ready"
    /\ \E env \in Environments, sh \in SheetOutcomes :
        /\ input' = [fn |-> "read_google_sheet_public", env |-> env, sheet |-> sh]
        /\ output' = read_google_sheet_public(env, sh)
    /\ pc' = "returned"
    /\ UNCHANGED handling_vars

CallExtractSheetId ==
    /\ pc = "ready"
    /\ \E url \in SheetUrls :
        /\ input' = [fn |-> "extract_sheet_id_from_url", url |-> url]
        /\ output' = extract_sheet_id_from_url(url)
    /\ pc' = "returned"
    /\ UNCHANGED handling_vars

CallGetDataContext ==
    /\ pc = "ready"
    /\ \E d \in ContextDatasets :
        /\ input' = [fn |-> "get_data_context", data |-> d]
        /\ output' = get_data_context(d)
    /\ pc' = "returned"
    /\ UNCHANGED handling_vars

CallAnalyzeDataset ==
    /\ pc = "ready"
    /\ \E d \in ContextDatasets :
        /\ input' = [fn |-> "analyze_dataset_automatically", data |-> d]
        /\ output' = analyze_dataset_automatically(d)
    /\ pc' = "returned"
    /\ UNCHANGED handling_vars

CallProcessQuery ==
    /\ pc = "ready"
    /\ \E d \in AppDatasets, q \in AppQueries, main_column \in MainColumns,
          ai_response \in AnalysisReplies, key \in ApiKeyStates,
          o2 \in FilterOutcomes :
        /\ input' = [fn |-> "process_query", data |-> d, query |-> q,
                      main_column |-> main_column, ai_response |-> ai_response,
                      key |-> key, filter |-> o2]
        /\ output' = app_process_query(d, q, main_column, ai_response, key, o2)
    /\ pc' = "returned"
    /\ UNCHANGED handling_vars

\* the caller goes on; the next call starts afresh
HelperReturn ==
    /\ pc = "returned"
    /\ pc' = "ready"
    /\ input' = None
    /\ output' = None
    /\ UNCHANGED handling_vars

NextHelpers ==
    \/ CallWebSearch
    \/ CallFetchSearchResults
    \/ CallAuthenticate
    \/ CallReadSheetPublic
    \/ CallExtractSheetId
    \/ CallGetDataContext
    \/ CallAnalyzeDataset
    \/ CallProcessQuery
    \/ HelperReturn

SpecHelpers == InitHelpers /\ [][NextHelpers]_vars

TypeOKHelpers ==
    /\ pc \in {"ready", "returned"}
    /\ pc = "returned" => output.raised \in BOOLEAN

(***************************************************************************)
(* Claims about the helper functions (SpecHelpers)                         *)
(***************************************************************************)
HelperReturned(fn) == pc = "returned" /\ input.fn = fn

\* the service failed, or sent no item
NoProviderItems(res) ==
    res.kind = "raises" \/ ~res.has_items \/ res.items = <<>>

\* the items returned are the service's, in its order, each with exactly the
\* keys title, link and snippet
MappedInOrder(value, items) ==
    /\ Len(value) = Len(items)
    /\ \A i \in DOMAIN items :
          /\ DOMAIN value[i] = {"title", "link", "snippet"}
          /\ \A f \in DOMAIN value[i] \cap DOMAIN items[i] : value[i][f] = items[i][f]

\* C23 (as claimed): the web search never raises to its caller; on a failure
\* of the service or an empty result set it returns the empty or no-result
\* value; on success it returns the items of the service in the service's
\* order, each mapped to exactly title, link and snippet; it asks for at most
\* 10 results.
C23_SearchIsBestEffort ==
    (pc = "returned" /\ input.fn \in {"web_search", "fetch_google_search_results"}) =>
        /\ ~output.raised
        /\ \A i \in DOMAIN output.requests :
              output.requests[i].num_given => output.requests[i].num <= 10
        /\ output.requests # <<>> =>
              IF NoProviderItems(input.res)
              THEN output.none \/ output.value = <<>>
              ELSE ~output.none /\ MappedInOrder(output.value, input.res.items)

\* neither the HTTP library nor the Google client library could be imported
LibrariesMissing ==
    /\ "env" \in DOMAIN input
    /\ ~input.env.REQUESTS_AVAILABLE
    /\ ~input.env.GOOGLE_API_AVAILABLE

\* C26: with REQUESTS_AVAILABLE and GOOGLE_API_AVAILABLE both false,
\* authenticate_google_sheets and read_google_sheet_public return None and
\* fetch_google_search_results returns the empty list; none of them raises
\* and none sends a request.
C26_MissingLibrariesDegrade ==
    (pc = "returned" /\ LibrariesMissing) =>
        /\ ~output.raised
        /\ output.requests = <<>>
        /\ input.fn \in {"authenticate_google_sheets", "read_google_sheet_public"}
               => output.none
        /\ input.fn = "fetch_google_search_results"
               => ~output.none /\ output.value = <<>>

\* C26 witness: read_google_sheet_public returned None without a request,
\* although the sheet would have answered with values
C26_Witness ==
    /\ pc = "returned"
    /\ LibrariesMissing
    /\ input.fn = "read_google_sheet_public"
    /\ input.sheet.has_values
    /\ output.none
    /\ output.requests = <<>>

\* the position after the marker `/spreadsheets/d/' in the URL (0 without it)
AfterMarker(url) ==
    IF \E i \in 1..(Len(url) - 15) :
           SubSeq(url, i, i + 15) = <<"/","s","p","r","e","a","d","s","h","e","e","t","s","/","d","/">>
    THEN 16 + Min({i \in 1..(Len(url) - 15) :
                      SubSeq(url, i, i + 15) = <<"/","s","p","r","e","a","d","s","h","e","e","t","s","/","d","/">>})
    ELSE 0

\* the first of `/', `?' and `#' from position start on, or the end of the URL
FirstDelimiter(url, start) ==
    Min({i \in start..Len(url) : url[i] \in {"/", "?", "#"}} \cup {Len(url) + 1})

\* C30 (as claimed): for a URL with `/spreadsheets/d/' the function returns
\* the text between the marker and the first following `/', `?' or `#'
\* (whichever comes first, or the end of the URL), so the ID holds none of
\* the three characters; for an input without the marker it returns the
\* input unchanged; it never returns None.
C30_SheetIdUpToFirstDelimiter ==
    HelperReturned("extract_sheet_id_from_url") =>
        /\ ~output.none
        /\ IF AfterMarker(input.url) = 0
           THEN output.value = input.url
           ELSE /\ output.value = SubSeq(input.url, AfterMarker(input.url),
                                         FirstDelimiter(input.url, AfterMarker(input.url)) - 1)
                /\ \A i \in DOMAIN output.value : output.value[i] \notin {"/", "?", "#"}

\* the distinct non-null values of a column of the dataset handed in
DistinctValues(ci) == Unique(ColumnCells(input.data, ci))

\* C25 (as claimed): the context extractor lists, for each column, all the
\* distinct non-null values when there are at most 20 of them, and otherwise
\* only the first 10 distinct values; for a dataset with zero columns it
\* returns a descriptor with no columns.
C25_ContextListsDistinctValues ==
    (pc = "returned"
        /\ input.fn \in {"get_data_context", "analyze_dataset_automatically"}) =>
        /\ ~output.raised /\ ~output.none
        /\ Len(output.value.columns) = Len(input.data.cols)
        /\ \A ci \in DOMAIN input.data.cols :
              output.value.listing[ci].values =
                  IF Len(DistinctValues(ci)) <= 20 THEN DistinctValues(ci)
                  ELSE SubSeq(DistinctValues(ci), 1, 10)

\* the first reply is taken as an analysis and holds a filter phrase
SignalsFilterIntent ==
    /\ HelperReturned("process_query")
    /\ ~input.ai_response.none
    /\ input.ai_response.text # <<>>
    /\ ~HasSub(Lower(input.ai_response.text), T_nosuitable)
    /\ ~HasSub(Lower(input.ai_response.text), T_error)
    /\ HasAny(Lower(input.ai_response.text), filter_phrases)

\* the filter step fails: no reply, no bracketed expression in the reply, or
\* an expression whose evaluation raises (unknown column among the causes)
FilterStepFails ==
    LET reply == query_gemini_simple(input.key, input.filter)
        m == FilterMatch(reply.text)
    IN  \/ reply.none
        \/ reply.text = <<>>
        \/ ~HasSub(reply.text, T_data_open)
        \/ ~m.matched
        \/ /\ ~HasSub(m.group, <<".">>)
           /\ data_query(input.data, m.group).raised
        \/ /\ HasSub(m.group, <<".">>)
           /\ eval_data_index(input.data, m.group).raised

\* C22: when the AI reply signals filter intent and the filter-expression
\* step fails in any way, process_query raises no error, writes no error, and
\* its outcome is the free-text analysis of the first reply.
C22_FilterFailureKeepsAnalysis ==
    (SignalsFilterIntent /\ FilterStepFails) =>
        /\ ~output.raised
        /\ ~output.none
        /\ Empty(output.value)
        /\ output.written = <<Written("AI Analysis", input.ai_response.text)>>

\* an expression over a column the dataset does not have was tried, and the
\* analysis of the first reply is the outcome
C22_Witness ==
    /\ SignalsFilterIntent
    /\ FilterStepFails
    /\ input.filter.text = F_unknown
    /\ input.data.rows # <<>>
    /\ output.requests = <<"query_gemini_ai", "query_gemini_simple">>
    /\ output.written = <<Written("AI Analysis", R_analysis)>>

====
